---- MODULE Spec2Model ----
(***************************************************************************)
(* A state-machine model of the CP/M 2.2 emulator (cpmemu.cc) and of the   *)
(* parts of the qkz80 CPU core that its system-call layer and step loop    *)
(* rely on.  Guest memory is a sparse function (address -> byte); a byte   *)
(* that was never stored reads as 0.  Host files are byte sequences, host  *)
(* FILE handles are records with a position.                               *)
(***************************************************************************)
EXTENDS Integers, Sequences, FiniteSets, TLC

\* ------------------------------------------------------------------ bounds
MaxInput == 6
MaxLine == 2
MaxHandles == 2
MaxCr == 1
MaxGap == 2
MaxTail == 2
MaxArgs == 3
MaxN == 3
MaxRec == 2
TickCycles == 10
ExitRunCycles == 150

\* ------------------------------------------------------- program constants
CTRL_C_EXIT_COUNT == 5
CTRL_C == 3
CPM_EOF == 26
EOF == -1
LF == 10
CR == 13
DEL == 127
BS == 8
CTRL_U == 21
DMA_SIZE == 128
DEFAULT_FCB == 92
DEFAULT_FCB2 == 108
DEFAULT_DMA == 128
RUNNING == -1

VARIABLES
  regs,                 \* CPU registers: A, F, BC, DE, HL, PC, SP
  mem,                  \* guest memory, sparse: address -> byte
  exit_status,          \* RUNNING, or the status the host process exited with
  consecutive_ctrl_c,   \* static int consecutive_ctrl_c
  stdin_log,            \* every value getchar() has returned so far (EOF = -1)
  con_pc,               \* "guest", or "rcb" while BDOS 10 is inside its read loop
  count,                \* local variable count of bdos_read_console_buffer
  last_op,              \* the handler that ran last, with its inputs
  host_fs,              \* host file system: path -> content of a regular file
  fps,                  \* host FILE objects ever fopen'ed: [path, pos, open]
  open_files,           \* std::map open_files: FCB address -> OpenFile
  current_dma,          \* CPMEmulator::current_dma
  current_drive,        \* CPMEmulator::current_drive
  current_user,         \* CPMEmulator::current_user
  config,               \* default_mode, default_eol_convert
  file_mappings,        \* std::vector<FileMapping> file_mappings
  file_map,             \* std::map file_map: normalized guest name -> host path
  search_results,       \* std::vector<std::string> search_results
  search_index,         \* size_t search_index
  argv,                 \* the arguments after the program name
  main_pc,              \* position of main: "setup", "cmdline" or "run"
  intr,                 \* qkz80: int_pending, nmi_pending, int_vector
  tick,                 \* main: int_cycles, int_rst, next_tick_cycles_
  save_memory,          \* statics save_memory_file, save_memory_start, save_memory_end
  program,              \* main: arg1 (the positional argument) and program
  guest                 \* the guest program's own bookkeeping

conVars == <<consecutive_ctrl_c, stdin_log, con_pc, count>>
fileVars == <<host_fs, fps, open_files, current_dma, current_drive, current_user,
              config, file_mappings, file_map>>
searchVars == <<search_results, search_index>>
bootVars == <<argv, main_pc>>
machVars == <<intr, tick, save_memory, program>>
vars == <<regs, mem, exit_status, last_op, conVars, fileVars, searchVars, bootVars,
          machVars, guest>>
nonConVars == <<fileVars, searchVars, bootVars, machVars, guest>>
nonFileVars == <<conVars, searchVars, bootVars, machVars, guest>>

\* ----------------------------------------------------------------- helpers
Byte(x) == x % 256
Word(x) == x % 65536
Fetch(m, a) == IF a \in DOMAIN m THEN m[a] ELSE 0
Store(m, a, v) == [x \in (DOMAIN m) \cup {a} |-> IF x = a THEN v ELSE m[x]]
Running == exit_status = RUNNING
MODE_8080 == "8080"
MODE_Z80 == "Z80"
\* the CPU: register set, its cpu_mode, and the cycle counter of qkz80
InitRegs == [A |-> 0, F |-> 0, BC |-> 0, DE |-> 0, HL |-> 0, PC |-> 256, SP |-> 65520,
             IX |-> 0, IY |-> 0, I |-> 0, IFF1 |-> 0, IFF2 |-> 0, IM |-> 0, AF_ |-> 0,
             cpu_mode |-> MODE_Z80, cycles |-> 0]

\* ================================================================ console
StdinInputs == {CTRL_C, CR, BS, EOF}
LineBufAddrs == {768}

check_ctrl_c_exit_noreset(ch) ==
  IF ch = CTRL_C THEN consecutive_ctrl_c + 1 ELSE consecutive_ctrl_c

\* check_ctrl_c_exit: the value of consecutive_ctrl_c after the call; the
\* process exits with status 0 when it reaches CTRL_C_EXIT_COUNT.
check_ctrl_c_exit(ch) ==
  IF ch = CTRL_C THEN consecutive_ctrl_c + 1 ELSE 0

\* The read shared by BDOS 1, BDOS 6 (E = 0xFF) and BIOS CONIN: getchar, map
\* EOF to eofch, feed the ^C detector, LF -> CR, A := ch & 0x7F.
console_read(op, raw, eofch) ==
  LET ch == IF raw = EOF THEN eofch ELSE raw IN
  /\ stdin_log' = Append(stdin_log, raw)
  /\ consecutive_ctrl_c' = check_ctrl_c_exit(ch)
  /\ IF check_ctrl_c_exit(ch) >= CTRL_C_EXIT_COUNT
       THEN exit_status' = 0 /\ UNCHANGED regs
       ELSE /\ UNCHANGED exit_status
            /\ regs' = [regs EXCEPT !.A = (IF ch = LF THEN CR ELSE ch) % 128]
  /\ last_op' = [op |-> op, ch |-> raw]
  /\ UNCHANGED <<mem, con_pc, count>>

bdos_read_console ==
  /\ Running /\ con_pc = "guest" /\ Len(stdin_log) < MaxInput
  /\ \E raw \in StdinInputs : console_read("bdos1", raw, CPM_EOF)

bios_conin ==
  /\ Running /\ con_pc = "guest" /\ Len(stdin_log) < MaxInput
  /\ \E raw \in StdinInputs : console_read("conin", raw, CPM_EOF)

bdos_direct_console_io ==
  /\ Running /\ con_pc = "guest" /\ Len(stdin_log) < MaxInput
  /\ \E e_reg \in {255, 254, 65}, stdin_has_data \in BOOLEAN :
       IF e_reg = 255 /\ stdin_has_data
         THEN \E raw \in StdinInputs : console_read("bdos6", raw, 0)
         ELSE /\ regs' = [regs EXCEPT !.A =
                            IF e_reg = 255 THEN 0
                            ELSE IF e_reg = 254
                                   THEN (IF stdin_has_data THEN 255 ELSE 0)
                                   ELSE regs.A]
              /\ last_op' = [op |-> "bdos6", ch |-> -2]
              /\ UNCHANGED <<mem, exit_status, conVars>>

\* BDOS 10, entry: DE -> buffer, byte 0 = max_chars.
bdos_read_console_buffer ==
  /\ Running /\ con_pc = "guest"
  /\ \E buf_addr \in LineBufAddrs :
       LET max_chars == Fetch(mem, buf_addr) IN
       IF max_chars = 0
         THEN /\ mem' = Store(mem, buf_addr + 1, 0)
              /\ regs' = [regs EXCEPT !.DE = buf_addr, !.A = 0]
              /\ UNCHANGED <<con_pc, count>>
         ELSE /\ con_pc' = "rcb"
              /\ count' = 0
              /\ regs' = [regs EXCEPT !.DE = buf_addr]
              /\ UNCHANGED mem
  /\ last_op' = [op |-> "rcb_begin", ch |-> -2]
  /\ UNCHANGED <<exit_status, consecutive_ctrl_c, stdin_log>>

\* BDOS 10, one iteration of while (count < max_chars): one getchar.
rcb_getchar ==
  /\ Running /\ con_pc = "rcb" /\ Len(stdin_log) < MaxInput
  /\ \E raw \in StdinInputs :
       LET buf_addr == regs.DE
           max_chars == Fetch(mem, buf_addr)
           ch == IF raw = EOF THEN CPM_EOF ELSE raw
           brk == ch \in {LF, CR} \/ ch = CPM_EOF
           stores == ch = CTRL_C \/ (ch >= 32 /\ ch < 127)
           cnt == IF ch \in {DEL, BS} THEN (IF count > 0 THEN count - 1 ELSE count)
                  ELSE IF ch = CTRL_U THEN 0
                  ELSE IF stores THEN count + 1
                  ELSE count
           mem1 == IF stores THEN Store(mem, buf_addr + 2 + count, ch) ELSE mem
       IN
       /\ stdin_log' = Append(stdin_log, raw)
       /\ consecutive_ctrl_c' = check_ctrl_c_exit(ch)
       /\ last_op' = [op |-> "rcb", ch |-> raw]
       /\ IF check_ctrl_c_exit(ch) >= CTRL_C_EXIT_COUNT
            THEN exit_status' = 0 /\ UNCHANGED <<regs, mem, con_pc, count>>
            ELSE /\ UNCHANGED exit_status
                 /\ count' = cnt
                 /\ IF brk \/ cnt >= max_chars
                      THEN /\ mem' = Store(mem1, buf_addr + 1, cnt)
                           /\ regs' = [regs EXCEPT !.A = 0]
                           /\ con_pc' = "guest"
                      ELSE /\ mem' = mem1
                           /\ UNCHANGED <<regs, con_pc>>

\* the emulator as constructed, before main hands control to the guest
InitDevices ==
  /\ exit_status = RUNNING
  /\ consecutive_ctrl_c = 0 /\ stdin_log = <<>> /\ con_pc = "guest" /\ count = 0
  /\ fps = <<>> /\ open_files = <<>>
  /\ current_dma = DEFAULT_DMA /\ current_drive = 0 /\ current_user = 0
  /\ config = [default_mode |-> "AUTO", default_eol_convert |-> TRUE, bios_disk_mode |-> 0]
  /\ search_results = <<>> /\ search_index = 0
  /\ last_op = [op |-> "init"]
\* "p.com", "p.cfg" and ".cfg"
ProgramCom == <<112, 46, 99, 111, 109>>
ProgramCfg == <<112, 46, 99, 102, 103>>
DotCfg == <<46, 99, 102, 103>>
\* no --int-cycles and no --save-memory on the command line; no interrupt requested
InitMachine ==
  /\ intr = [int_pending |-> FALSE, nmi_pending |-> FALSE, int_vector |-> 255]
  /\ tick = [int_cycles |-> 0, int_rst |-> 7, next_tick_cycles_ |-> 0]
  /\ save_memory = [file |-> <<>>, start |-> 0, end |-> 0]
  /\ program = [arg1 |-> ProgramCom, path |-> ProgramCom, bios_disk |-> "unset"]
InitEmulator == InitDevices /\ InitMachine /\ regs = InitRegs

InitConsole ==
  /\ InitEmulator
  /\ host_fs = <<>> /\ file_mappings = <<>> /\ file_map = <<>>
  /\ argv = <<>> /\ main_pc = "run" /\ guest = [prog |-> "console"]
  /\ \E m \in 0..MaxLine : mem = [a \in LineBufAddrs |-> m]

NextConsole ==
  \/ bdos_read_console /\ UNCHANGED nonConVars
  \/ bios_conin /\ UNCHANGED nonConVars
  \/ bdos_direct_console_io /\ UNCHANGED nonConVars
  \/ bdos_read_console_buffer /\ UNCHANGED nonConVars
  \/ rcb_getchar /\ UNCHANGED nonConVars

SpecConsole == InitConsole /\ [][NextConsole]_vars

\* ------------------------------------------------------------------- C1
RECURSIVE TrailingCtrlC(_)
TrailingCtrlC(s) ==
  IF s = <<>> \/ s[Len(s)] # CTRL_C THEN 0
  ELSE 1 + TrailingCtrlC(SubSeq(s, 1, Len(s) - 1))

\* C1: over all console read paths the emulator has exited (status 0) exactly
\* when the last five values read were all 0x03; any other value read resets
\* the run; a 0x03 that does not complete the run is handed to the guest
\* (in A for BDOS 1 / BDOS 6 / CONIN, in the line buffer for BDOS 10).
C1_CtrlCExit ==
  /\ exit_status \in {RUNNING, 0}
  /\ (exit_status = 0) <=> (TrailingCtrlC(stdin_log) = CTRL_C_EXIT_COUNT)
  /\ TrailingCtrlC(stdin_log) <= CTRL_C_EXIT_COUNT
  /\ (Running /\ last_op.op \in {"bdos1", "bdos6", "conin"} /\ last_op.ch = CTRL_C)
       => regs.A = CTRL_C
  /\ (Running /\ last_op.op = "rcb" /\ last_op.ch = CTRL_C)
       => /\ count >= 1
          /\ Fetch(mem, regs.DE + 2 + (count - 1)) = CTRL_C

C1_Witness ==
  /\ exit_status = 0
  /\ Len(stdin_log) > CTRL_C_EXIT_COUNT
  /\ last_op.op = "rcb"

\* ============================================================ file system
\* Names and paths are sequences of character codes.
SPACE == 32
DOT == 46
STAR == 42
SLASH == 47
MODE_BINARY == "BINARY"
MODE_TEXT == "TEXT"
MODE_AUTO == "AUTO"

toupper(c) == IF c >= 97 /\ c <= 122 THEN c - 32 ELSE c
tolower(c) == IF c >= 65 /\ c <= 90 THEN c + 32 ELSE c
Upper(s) == [i \in 1..Len(s) |-> toupper(s[i])]
Lower(s) == [i \in 1..Len(s) |-> tolower(s[i])]
Fill(n, b) == [i \in 1..n |-> b]
Min(a, b) == IF a < b THEN a ELSE b
\* std::string::find(c) / rfind(c): the 1-based index, 0 for npos
FindChar(s, c) ==
  IF \E i \in 1..Len(s) : s[i] = c
    THEN CHOOSE i \in 1..Len(s) : s[i] = c /\ \A j \in 1..(i - 1) : s[j] # c
    ELSE 0
RFindChar(s, c) ==
  IF \E i \in 1..Len(s) : s[i] = c
    THEN CHOOSE i \in 1..Len(s) : s[i] = c /\ \A j \in (i + 1)..Len(s) : s[j] # c
    ELSE 0
Contains(s, sub) ==
  \E i \in 0..(Len(s) - Len(sub)) : SubSeq(s, i + 1, i + Len(sub)) = sub

MemSeq(m, a, n) == [i \in 1..n |-> Fetch(m, a + i - 1)]
StoreSeq(m, a, s) ==
  [x \in (DOMAIN m) \cup {a + i - 1 : i \in 1..Len(s)} |->
     IF x >= a /\ x < a + Len(s) THEN s[x - a + 1] ELSE m[x]]

normalize_cpm_filename(name) == Upper(SelectSeq(name, LAMBDA c : c # SPACE))

fcb_to_filename(m, fcb_addr) ==
  LET strip(s) == SelectSeq([i \in 1..Len(s) |-> s[i] % 128], LAMBDA c : c # SPACE)
      name == strip(MemSeq(m, fcb_addr + 1, 8))
      ext == strip(MemSeq(m, fcb_addr + 9, 3))
  IN IF ext # <<>> THEN name \o <<DOT>> \o ext ELSE name

TextExts == {<<DOT, 66, 65, 83>>, <<DOT, 77, 65, 67>>, <<DOT, 65, 83, 77>>,
             <<DOT, 84, 88, 84>>, <<DOT, 68, 79, 67>>, <<DOT, 76, 83, 84>>,
             <<DOT, 80, 82, 78>>}
detect_file_mode(filename) ==
  IF \E e \in TextExts : Contains(Upper(filename), e) THEN MODE_TEXT ELSE MODE_BINARY

match_pattern(pattern, text) ==
  LET pat_upper == Upper(pattern)
      text_upper == Upper(text)
  IN \/ pat_upper = text_upper
     \/ pat_upper = <<STAR>> \/ pat_upper = <<STAR, DOT, STAR>>
     \/ /\ pat_upper # <<>> /\ pat_upper[1] = STAR /\ FindChar(pat_upper, DOT) # 0
        /\ FindChar(text_upper, DOT) # 0
        /\ SubSeq(text_upper, FindChar(text_upper, DOT), Len(text_upper))
             = SubSeq(pat_upper, FindChar(pat_upper, DOT), Len(pat_upper))

\* platform::get_file_type(path) != NotFound (the model's host holds regular files only)
FileExists(path) == path \in DOMAIN host_fs

\* find_unix_file_ex: [path, mode, eol]; path = <<>> when nothing is found
find_unix_file_ex(cpm_name) ==
  LET normalized == normalize_cpm_filename(cpm_name)
      hits == {i \in 1..Len(file_mappings) :
                 /\ match_pattern(file_mappings[i].cpm_pattern, normalized)
                 /\ FileExists(file_mappings[i].unix_pattern)}
      lowercase == Lower(normalized)
      found(path) == [path |-> path, mode |-> detect_file_mode(normalized),
                      eol |-> config.default_eol_convert]
  IN IF hits # {}
       THEN LET mp == file_mappings[CHOOSE i \in hits : \A j \in hits : i <= j]
            IN [path |-> mp.unix_pattern,
                mode |-> IF mp.mode = MODE_AUTO THEN detect_file_mode(normalized)
                         ELSE mp.mode,
                eol |-> mp.eol_convert]
     ELSE IF normalized \in DOMAIN file_map THEN found(file_map[normalized])
     ELSE IF FileExists(lowercase) THEN found(lowercase)
     ELSE IF FileExists(normalized) THEN found(normalized)
     ELSE [path |-> <<>>, mode |-> MODE_BINARY, eol |-> FALSE]

\* ---- host stdio on a byte sequence
\* fputc / fwrite at position pos (0-based): overwrite, extend, zero-fill a hole
WriteAt(data, pos, bytes) ==
  [i \in 1..(IF pos + Len(bytes) > Len(data) THEN pos + Len(bytes) ELSE Len(data)) |->
     IF i > pos /\ i <= pos + Len(bytes) THEN bytes[i - pos]
     ELSE IF i <= Len(data) THEN data[i] ELSE 0]

\* host \n -> guest \r\n over a whole byte stream
lf_to_crlf(s) ==
  SelectSeq([k \in 1..(2 * Len(s)) |->
               IF k % 2 = 0 THEN s[k \div 2]
               ELSE IF s[(k + 1) \div 2] = LF THEN CR ELSE -1],
            LAMBDA c : c # -1)
\* the text branch of read_with_conversion: [out, pos, eof]. The fgetc loop
\* takes host bytes while the converted output still fits in size bytes
\* (2 for a \n, 1 otherwise) and stops before a ^Z; taken is the number of
\* bytes the loop converts. Then: buffer full or end of file -> stop; a \n
\* that does not fit -> ungetc; a ^Z -> consumed, eof_seen.
text_read(data, pos, size) ==
  LET avail == IF Len(data) > pos THEN Len(data) - pos ELSE 0
      outlen(j) == j + Cardinality({i \in 1..j : data[pos + i] = LF})
      fits(j) == outlen(j) <= size /\ \A i \in 1..j : data[pos + i] # CPM_EOF
      taken == CHOOSE j \in 0..Min(avail, size) :
                 fits(j) /\ \A k \in (j + 1)..Min(avail, size) : ~fits(k)
      out == lf_to_crlf(SubSeq(data, pos + 1, pos + taken))
      at_ctrl_z == Len(out) < size /\ taken < avail /\ data[pos + taken + 1] = CPM_EOF
  IN [out |-> out,
      pos |-> IF at_ctrl_z THEN pos + taken + 1 ELSE pos + taken,
      eof |-> at_ctrl_z]

\* read_with_conversion past its test of of.eof_seen
read_unmarked(of, size) ==
  LET data == host_fs[fps[of.fp].path]
      pos == fps[of.fp].pos
  IN IF of.mode = MODE_BINARY \/ ~of.eol_convert
       THEN LET n == IF pos >= Len(data) THEN 0 ELSE Min(size, Len(data) - pos)
                buf == SubSeq(data, pos + 1, pos + n)
                z == FindChar(buf, CPM_EOF)
            IN IF of.mode = MODE_TEXT /\ z # 0
                 THEN [out |-> SubSeq(buf, 1, z - 1), pos |-> pos + n, eof |-> TRUE]
                 ELSE [out |-> buf, pos |-> pos + n, eof |-> FALSE]
     ELSE text_read(data, pos, size)

\* read_with_conversion(of, buffer, size): [out (the nread bytes), pos, eof]
read_with_conversion(of, size) ==
  IF of.eof_seen THEN [out |-> <<>>, pos |-> fps[of.fp].pos, eof |-> TRUE]
  ELSE read_unmarked(of, size)

pad_to_128(buffer) == buffer \o Fill(DMA_SIZE - Len(buffer), CPM_EOF)

write_emits(buffer, i) ==
  buffer[i] # CR \/ ~(i + 1 <= Len(buffer) /\ buffer[i + 1] = LF)

\* the bytes write_with_conversion puts on the host for one buffer
write_with_conversion(of, buffer) ==
  IF of.mode = MODE_BINARY \/ ~of.eol_convert THEN buffer
  ELSE LET z == FindChar(buffer, CPM_EOF)
           upto == IF z = 0 THEN Len(buffer) ELSE z - 1
           kept == SelectSeq([i \in 1..upto |-> i], LAMBDA i : write_emits(buffer, i))
       IN [k \in 1..Len(kept) |-> buffer[kept[k]]]

\* ---- the open-file table and the BDOS file functions
Put(f, k, v) == [x \in (DOMAIN f) \cup {k} |-> IF x = k THEN v ELSE f[x]]
Remove(f, k) == [x \in (DOMAIN f) \ {k} |-> f[x]]
FcbAddrs == {DEFAULT_FCB, 512}
HasEntry(fcb_addr) == fcb_addr \in DOMAIN open_files
\* the host position of an open entry is at or past the end of its file
AtHostEof(fcb_addr) ==
  /\ HasEntry(fcb_addr)
  /\ fps[open_files[fcb_addr].fp].pos >= Len(host_fs[fps[open_files[fcb_addr].fp].path])

\* bdos_open_file as a function of the state: what it leaves in A, the FILE
\* objects, the table and guest memory
open_file_effect(fcb_addr) ==
  LET filename == fcb_to_filename(mem, fcb_addr)
      r == find_unix_file_ex(filename)
  IN IF r.path = <<>> \/ ~FileExists(r.path)
       THEN [A |-> 255, fps |-> fps, open_files |-> open_files, mem |-> mem]
       ELSE [A |-> 0,
             fps |-> Append(fps, [path |-> r.path, pos |-> 0, open |-> TRUE]),
             open_files |-> Put(open_files, fcb_addr,
                                [fp |-> Len(fps) + 1, mode |-> r.mode,
                                 eol_convert |-> r.eol, eof_seen |-> FALSE,
                                 write_mode |-> FALSE]),
             mem |-> Store(Store(mem, fcb_addr + 12, 0), fcb_addr + 15, 128)]

bdos_open_file(fcb_addr) ==
  LET e == open_file_effect(fcb_addr) IN
  /\ Running
  /\ regs' = [regs EXCEPT !.DE = fcb_addr, !.A = e.A]
  /\ fps' = e.fps /\ open_files' = e.open_files /\ mem' = e.mem
  /\ last_op' = [op |-> "open", fcb |-> fcb_addr, had |-> HasEntry(fcb_addr)]
  /\ UNCHANGED <<host_fs, current_dma, current_drive, current_user, config,
                 file_mappings, file_map, exit_status>>

close_returns_ff_if_closed(fcb_addr) == IF HasEntry(fcb_addr) THEN 0 ELSE 255

\* the value bdos_close_file leaves in A
close_result(fcb_addr) == 0

bdos_close_file(fcb_addr) ==
  /\ Running
  /\ IF HasEntry(fcb_addr)
       THEN /\ fps' = [fps EXCEPT ![open_files[fcb_addr].fp].open = FALSE]
            /\ open_files' = Remove(open_files, fcb_addr)
       ELSE UNCHANGED <<fps, open_files>>
  /\ regs' = [regs EXCEPT !.DE = fcb_addr, !.A = close_result(fcb_addr)]
  /\ last_op' = [op |-> "close", fcb |-> fcb_addr, had |-> HasEntry(fcb_addr),
                 again |-> last_op.op = "close" /\ last_op.fcb = fcb_addr /\ last_op.had]
  /\ UNCHANGED <<mem, host_fs, current_dma, current_drive, current_user, config,
                 file_mappings, file_map, exit_status>>

bdos_read_sequential(fcb_addr) ==
  /\ Running
  /\ last_op' = [op |-> "read_seq", fcb |-> fcb_addr, had |-> HasEntry(fcb_addr),
                 at_eof |-> AtHostEof(fcb_addr)]
  /\ IF ~HasEntry(fcb_addr)
       THEN /\ regs' = [regs EXCEPT !.DE = fcb_addr, !.A = 255]
            /\ UNCHANGED <<mem, fps, open_files>>
       ELSE LET of == open_files[fcb_addr]
                r == read_with_conversion(of, DMA_SIZE)
                hit_eof == Len(r.out) = 0 \/ r.eof
                mem1 == IF hit_eof THEN mem
                        ELSE StoreSeq(mem, current_dma, pad_to_128(r.out))
            IN /\ fps' = [fps EXCEPT ![of.fp].pos = r.pos]
               /\ open_files' = [open_files EXCEPT ![fcb_addr].eof_seen = r.eof]
               /\ regs' = [regs EXCEPT !.DE = fcb_addr,
                                       !.A = IF hit_eof THEN 1 ELSE 0]
               /\ mem' = Store(mem1, fcb_addr + 32, Byte(Fetch(mem1, fcb_addr + 32) + 1))
  /\ UNCHANGED <<host_fs, current_dma, current_drive, current_user, config,
                 file_mappings, file_map, exit_status>>

bdos_write_sequential(fcb_addr) ==
  LET e == IF HasEntry(fcb_addr)
             THEN [A |-> regs.A, fps |-> fps, open_files |-> open_files, mem |-> mem]
             ELSE open_file_effect(fcb_addr)
  IN
  /\ Running
  /\ last_op' = [op |-> "write_seq", fcb |-> fcb_addr, had |-> HasEntry(fcb_addr)]
  /\ IF fcb_addr \notin DOMAIN e.open_files
       THEN /\ regs' = [regs EXCEPT !.DE = fcb_addr, !.A = 255]
            /\ fps' = e.fps /\ open_files' = e.open_files /\ mem' = e.mem
            /\ UNCHANGED host_fs
       ELSE LET of == e.open_files[fcb_addr]
                path == e.fps[of.fp].path
                pos == e.fps[of.fp].pos
                bytes == write_with_conversion(of, MemSeq(e.mem, current_dma, DMA_SIZE))
            IN /\ host_fs' = [host_fs EXCEPT ![path] = WriteAt(@, pos, bytes)]
               /\ fps' = [e.fps EXCEPT ![of.fp].pos = pos + Len(bytes)]
               /\ open_files' = [e.open_files EXCEPT ![fcb_addr].write_mode = TRUE]
               /\ regs' = [regs EXCEPT !.DE = fcb_addr,
                                       !.A = IF Len(bytes) > 0 THEN 0 ELSE 255]
               /\ mem' = Store(e.mem, fcb_addr + 32, Byte(Fetch(e.mem, fcb_addr + 32) + 1))
  /\ UNCHANGED <<current_dma, current_drive, current_user, config,
                 file_mappings, file_map, exit_status>>

bdos_make_file(fcb_addr) ==
  LET filename == fcb_to_filename(mem, fcb_addr)
      unix_name == Lower(filename)
  IN
  /\ Running
  /\ last_op' = [op |-> "make", fcb |-> fcb_addr, had |-> HasEntry(fcb_addr)]
  /\ IF unix_name = <<>>
       THEN /\ regs' = [regs EXCEPT !.DE = fcb_addr, !.A = 255]
            /\ UNCHANGED <<host_fs, fps, open_files, mem>>
       ELSE /\ host_fs' = Put(host_fs, unix_name, <<>>)
            /\ fps' = Append(fps, [path |-> unix_name, pos |-> 0, open |-> TRUE])
            /\ open_files' = Put(open_files, fcb_addr,
                                 [fp |-> Len(fps) + 1, mode |-> config.default_mode,
                                  eol_convert |-> config.default_eol_convert,
                                  eof_seen |-> FALSE, write_mode |-> TRUE])
            /\ mem' = Store(Store(mem, fcb_addr + 12, 0), fcb_addr + 15, 0)
            /\ regs' = [regs EXCEPT !.DE = fcb_addr, !.A = 0]
  /\ UNCHANGED <<current_dma, current_drive, current_user, config,
                 file_mappings, file_map, exit_status>>

\* fclose every FILE the table owns, then clear the table
close_all_files ==
  /\ fps' = [i \in 1..Len(fps) |->
               IF \E f \in DOMAIN open_files : open_files[f].fp = i
                 THEN [fps[i] EXCEPT !.open = FALSE] ELSE fps[i]]
  /\ open_files' = <<>>

bdos_reset_disk ==
  /\ Running
  /\ close_all_files
  /\ current_drive' = 0 /\ current_user' = 0
  /\ last_op' = [op |-> "reset_disk"]
  /\ UNCHANGED <<regs, mem, host_fs, current_dma, config, file_mappings, file_map,
                 exit_status>>

bdos_reset_drive ==
  /\ Running
  /\ close_all_files
  /\ last_op' = [op |-> "reset_drive"]
  /\ UNCHANGED <<regs, mem, host_fs, current_dma, current_drive, current_user, config,
                 file_mappings, file_map, exit_status>>

\* ---- the file subsystem driven by a guest that issues BDOS file calls
\* guest FCB name fields: "A       TXT", "C       TXT" and "B       DAT"
GuestFcbNames == {<<65, 32, 32, 32, 32, 32, 32, 32, 84, 88, 84>>,
                  <<67, 32, 32, 32, 32, 32, 32, 32, 84, 88, 84>>}
GuestFcb2Name == <<66, 32, 32, 32, 32, 32, 32, 32, 68, 65, 84>>
\* host files a.txt and b.dat of the current directory
HostA == <<97, DOT, 116, 120, 116>>
HostB == <<98, DOT, 100, 97, 116>>
HostContentsA == {<<>>, <<97, LF, 98>>}
HostContentB == <<CR, LF>>
\* what the guest left in the DMA buffer: "a\r\n" and ^Z padding
GuestRecord == <<97, CR, LF>> \o Fill(DMA_SIZE - 3, CPM_EOF)

InitFile ==
  /\ InitEmulator
  /\ file_mappings = <<>> /\ file_map = <<>>
  /\ argv = <<>> /\ main_pc = "run" /\ guest = [prog |-> "files"]
  /\ \E ca \in HostContentsA :
       host_fs = Put(Put(<<>>, HostA, ca), HostB, HostContentB)
  /\ \E n1 \in GuestFcbNames :
       mem = StoreSeq(StoreSeq(StoreSeq(<<>>, DEFAULT_FCB + 1, n1),
                               512 + 1, GuestFcb2Name),
                      DEFAULT_DMA, GuestRecord)

\* the guest issues any file call on either FCB; the bounds cap the number of
\* fopen calls and the current-record byte of an FCB
CanOpen == Len(fps) < MaxHandles
CanAdvance(f) == Fetch(mem, f + 32) < MaxCr
NextFile ==
  \/ \E f \in FcbAddrs : CanOpen /\ bdos_open_file(f) /\ UNCHANGED nonFileVars
  \/ \E f \in FcbAddrs : bdos_close_file(f) /\ UNCHANGED nonFileVars
  \/ \E f \in FcbAddrs : (HasEntry(f) => CanAdvance(f))
                         /\ bdos_read_sequential(f) /\ UNCHANGED nonFileVars
  \/ \E f \in FcbAddrs : CanOpen /\ CanAdvance(f)
                         /\ bdos_write_sequential(f) /\ UNCHANGED nonFileVars
  \/ \E f \in FcbAddrs : CanOpen /\ bdos_make_file(f) /\ UNCHANGED nonFileVars
  \/ bdos_reset_disk /\ UNCHANGED nonFileVars
  \/ bdos_reset_drive /\ UNCHANGED nonFileVars

SpecFile == InitFile /\ [][NextFile]_vars

\* C2: every host handle that is still open belongs to exactly one open-file
\* table entry, and every table entry owns an open handle (Open or Make on an
\* FCB address that already has an entry would have to close the old handle).
C2_HandleOwnership ==
  /\ \A i \in 1..Len(fps) :
       fps[i].open => Cardinality({f \in DOMAIN open_files : open_files[f].fp = i}) = 1
  /\ \A f \in DOMAIN open_files : fps[open_files[f].fp].open

\* C3: Close returns A=0 for every FCB address, with or without an entry;
\* after it the address has no entry and every other FCB keeps its entry; a
\* Close on an address without an entry (a second Close) changes neither the
\* table nor any host handle.
C3_CloseIdempotent ==
  [][\A f \in FcbAddrs : bdos_close_file(f) =>
       /\ regs'.A = 0
       /\ f \notin DOMAIN open_files'
       /\ \A g \in (DOMAIN open_files) \ {f} :
            g \in DOMAIN open_files' /\ open_files'[g] = open_files[g]
       /\ (~HasEntry(f) => open_files' = open_files /\ fps' = fps)]_vars

\* a Close that directly follows a Close of the same FCB, which had an entry,
\* while the other FCB still has one
C3_Witness ==
  /\ last_op.op = "close" /\ last_op.again /\ ~last_op.had
  /\ regs.A = 0
  /\ \E g \in FcbAddrs : g # last_op.fcb /\ HasEntry(g)

\* C4: a Read Sequential issued with the host file at end of file returns A=1
\* and leaves the 128-byte DMA buffer filled with 0x1A.
C4_ReadAtEof ==
  (last_op.op = "read_seq" /\ last_op.at_eof) =>
     /\ regs.A = 1
     /\ MemSeq(mem, current_dma, DMA_SIZE) = Fill(DMA_SIZE, CPM_EOF)

\* ============================================= TEXT files, record by record
\* guest \r\n -> host \n over a whole byte stream; a lone \r is kept
crlf_to_lf(s) ==
  LET kept == SelectSeq([i \in 1..Len(s) |-> i],
                        LAMBDA i : ~(s[i] = CR /\ i < Len(s) /\ s[i + 1] = LF))
  IN [k \in 1..Len(kept) |-> s[kept[k]]]
\* a guest text stream as a CP/M program reads it: up to the first ^Z
UpToEof(s) == IF FindChar(s, CPM_EOF) = 0 THEN s ELSE SubSeq(s, 1, FindChar(s, CPM_EOF) - 1)

RECURSIVE SeqsUpTo(_, _)
SeqsUpTo(S, n) ==
  IF n = 0 THEN {<<>>}
  ELSE LET shorter == SeqsUpTo(S, n - 1)
       IN shorter \cup {Append(t, c) : t \in shorter, c \in S}

\* host text contents: a run of letters that ends up to MaxGap bytes before a
\* record boundary (or no run), then up to MaxTail letters and line ends
TextHeads == {0} \cup ((DMA_SIZE - MaxGap)..DMA_SIZE)
HostTexts == {Fill(k, 97) \o t : k \in TextHeads, t \in SeqsUpTo({98, LF}, MaxTail)}

\* the guest reads A.TXT to the end: Open, then Read Sequential until A # 0,
\* collecting the records that came with A = 0
InitRead ==
  /\ InitEmulator
  /\ file_mappings = <<>> /\ file_map = <<>>
  /\ argv = <<>> /\ main_pc = "run"
  /\ guest = [prog |-> "type", delivered |-> <<>>, eof |-> FALSE]
  /\ \E text \in HostTexts : host_fs = Put(<<>>, HostA, text)
  /\ \E n1 \in GuestFcbNames : mem = StoreSeq(<<>>, DEFAULT_FCB + 1, n1)

guest_open ==
  /\ ~HasEntry(DEFAULT_FCB) /\ last_op.op = "init"
  /\ bdos_open_file(DEFAULT_FCB)
  /\ UNCHANGED <<nonFileVars>>

guest_read_record ==
  /\ ~guest.eof
  /\ bdos_read_sequential(DEFAULT_FCB)
  /\ guest' = IF regs'.A = 0
                THEN [guest EXCEPT !.delivered = @ \o MemSeq(mem', current_dma, DMA_SIZE)]
                ELSE [guest EXCEPT !.eof = TRUE]
  /\ UNCHANGED <<conVars, searchVars, bootVars, machVars>>

NextRead == guest_open \/ guest_read_record
SpecRead == InitRead /\ [][NextRead]_vars

\* C5: for a TEXT file with EOL conversion whose host content holds no 0x1A,
\* the records delivered with A=0, read up to the first 0x1A, are the host
\* content with every \n replaced by \r\n, wherever the record boundaries fall.
C5_TextReadConverts ==
  (guest.prog = "type" /\ guest.eof /\ last_op.had
     /\ open_files[DEFAULT_FCB].mode = MODE_TEXT /\ open_files[DEFAULT_FCB].eol_convert)
  => UpToEof(guest.delivered) = lf_to_crlf(host_fs[HostA])

\* the guest writes a text stream to A.TXT: Open, then for each 128 bytes of
\* the stream (the last record padded with ^Z) fill the DMA buffer and call
\* Write Sequential
GuestStreams ==
  {Fill(k, 97) \o t : k \in TextHeads, t \in SeqsUpTo({98, CR, LF}, MaxTail)} \ {<<>>}
NextRecord(stream, sent) ==
  pad_to_128(SubSeq(stream, sent + 1, Min(sent + DMA_SIZE, Len(stream))))

InitWrite ==
  /\ InitEmulator
  /\ file_mappings = <<>> /\ file_map = <<>>
  /\ argv = <<>> /\ main_pc = "run"
  /\ \E stream \in GuestStreams :
       guest = [prog |-> "pip", stream |-> stream, sent |-> 0, loaded |-> FALSE]
  /\ host_fs = Put(<<>>, HostA, <<>>)
  /\ mem = StoreSeq(<<>>, DEFAULT_FCB + 1, <<65, 32, 32, 32, 32, 32, 32, 32, 84, 88, 84>>)

guest_load_record ==
  /\ Running /\ HasEntry(DEFAULT_FCB)
  /\ ~guest.loaded /\ guest.sent < Len(guest.stream)
  /\ mem' = StoreSeq(mem, current_dma, NextRecord(guest.stream, guest.sent))
  /\ guest' = [guest EXCEPT !.loaded = TRUE]
  /\ UNCHANGED <<regs, exit_status, last_op, conVars, fileVars, searchVars, bootVars,
                 machVars>>

guest_write_record ==
  /\ guest.loaded
  /\ bdos_write_sequential(DEFAULT_FCB)
  /\ guest' = [guest EXCEPT !.loaded = FALSE,
                            !.sent = Min(@ + DMA_SIZE, Len(guest.stream))]
  /\ UNCHANGED <<conVars, searchVars, bootVars, machVars>>

NextWrite == guest_open \/ guest_load_record \/ guest_write_record
SpecWrite == InitWrite /\ [][NextWrite]_vars

\* C6: for a TEXT file with EOL conversion, the records of a guest stream
\* written one after the other put on the host that stream with every \r\n
\* collapsed to \n, a pair split across two records included.
C6_TextWriteCollapses ==
  (guest.prog = "pip" /\ guest.sent = Len(guest.stream) /\ ~guest.loaded
     /\ HasEntry(DEFAULT_FCB)
     /\ open_files[DEFAULT_FCB].mode = MODE_TEXT /\ open_files[DEFAULT_FCB].eol_convert)
  => host_fs[HostA] = crlf_to_lf(guest.stream)

\* ================================================= Search First / Search Next
QMARK == 63
is_valid_cpm_char(ch) ==
  LET c == toupper(ch)
  IN \/ c >= 65 /\ c <= 90
     \/ c >= 48 /\ c <= 57
     \/ c \in {36, 35, 64, 33, 37, 39, 40, 41, 45, 123, 125, 126}

\* unix_to_cpm_83: [ok, name (8 bytes), ext (3 bytes)]; on an illegal
\* character it returns early with the buffers as filled so far
unix_to_cpm_83(unix_name) ==
  LET dot == RFindChar(unix_name, DOT)
      name_part == IF dot > 1 THEN SubSeq(unix_name, 1, dot - 1) ELSE unix_name
      ext_part == IF dot > 1 THEN SubSeq(unix_name, dot + 1, Len(unix_name)) ELSE <<>>
      bad(part, n) == {i \in 1..Min(Len(part), n) : ~is_valid_cpm_char(part[i])}
      copied(part, n) == IF bad(part, n) = {} THEN Min(Len(part), n)
                         ELSE (CHOOSE i \in bad(part, n) : \A j \in bad(part, n) : i <= j) - 1
      name_ok == bad(name_part, 8) = {}
      ext_ok == bad(ext_part, 3) = {}
  IN [ok |-> name_ok /\ ext_ok /\ Len(name_part) <= 8 /\ Len(ext_part) <= 3,
      name |-> [i \in 1..8 |-> IF i <= copied(name_part, 8)
                                 THEN toupper(name_part[i]) ELSE SPACE],
      ext |-> [i \in 1..3 |-> IF name_ok /\ i <= copied(ext_part, 3)
                                THEN toupper(ext_part[i]) ELSE SPACE]]

\* pattern and file are 11 bytes: 8 of name, 3 of extension
match_fcb_pattern(pattern, file) ==
  \A i \in 1..11 : pattern[i] = QMARK \/ toupper(pattern[i]) = toupper(file[i])

\* one of the three candidate loops of bdos_search_first over items
\* [src, path]: acc is [list, added]; the mapping loop (dedup = FALSE) does
\* not consult added_cpm_names, the other two do
RECURSIVE scan_candidates(_, _, _, _, _)
scan_candidates(items, i, acc, dedup, pattern) ==
  IF i > Len(items) THEN acc
  ELSE LET it == items[i]
           c == unix_to_cpm_83(it.src)
           cpm_name == c.name \o c.ext
           skip == \/ ~FileExists(it.path)
                   \/ ~c.ok
                   \/ dedup /\ cpm_name \in acc.added
                   \/ ~match_fcb_pattern(pattern, cpm_name)
       IN scan_candidates(items, i + 1,
            IF skip THEN acc
            ELSE [list |-> Append(acc.list, [path |-> it.path, cpm |-> cpm_name]),
                  added |-> acc.added \cup {cpm_name}],
            dedup, pattern)

\* std::map iterates its keys in increasing (lexicographic) order
LexLess(a, b) ==
  \E k \in 1..(Len(a) + 1) :
     /\ \A j \in 1..(k - 1) : j <= Len(b) /\ a[j] = b[j]
     /\ \/ k = Len(a) + 1 /\ Len(b) > Len(a)
        \/ k <= Len(a) /\ k <= Len(b) /\ a[k] < b[k]
Orderings(S) ==
  {q \in [1..Cardinality(S) -> S] : \A i, j \in 1..Cardinality(S) : i # j => q[i] # q[j]}
SortedKeys(f) ==
  CHOOSE q \in Orderings(DOMAIN f) : \A i \in 1..(Len(q) - 1) : LexLess(q[i], q[i + 1])

\* the candidates in the order bdos_search_first collects them, each with the
\* host path pushed on search_results and the guest name it was admitted under
search_candidates(pattern, dir_entries) ==
  LET from_mappings ==
        scan_candidates([i \in 1..Len(file_mappings) |->
                           [src |-> file_mappings[i].cpm_pattern,
                            path |-> file_mappings[i].unix_pattern]],
                        1, [list |-> <<>>, added |-> {}], FALSE, pattern)
      keys == SortedKeys(file_map)
      from_map ==
        scan_candidates([i \in 1..Len(keys) |-> [src |-> keys[i], path |-> file_map[keys[i]]]],
                        1, from_mappings, TRUE, pattern)
      visible == SelectSeq(dir_entries, LAMBDA n : n[1] # DOT)
      from_dir ==
        scan_candidates([i \in 1..Len(visible) |-> [src |-> visible[i], path |-> visible[i]]],
                        1, from_map, TRUE, pattern)
  IN from_dir.list

\* the 32-byte directory entry synthesized for a host path
dir_entry(path) ==
  LET c == unix_to_cpm_83(path)
      file_size == IF FileExists(path) THEN Len(host_fs[path]) ELSE 0
      records == (file_size + 127) \div 128
      rc == IF records > 128 THEN 128 ELSE records
  IN <<current_user>> \o c.name \o c.ext \o <<0, 0, 0, Byte(rc)>>
       \o [i \in 1..16 |-> IF i - 1 < (records + 7) \div 8 THEN 1 ELSE 0]

bdos_search_first(fcb_addr, dir_entries) ==
  LET pattern == MemSeq(mem, fcb_addr + 1, 11)
      results == search_candidates(pattern, dir_entries)
  IN
  /\ Running
  /\ search_results' = [i \in 1..Len(results) |-> results[i].path]
  /\ last_op' = [op |-> "search_first", fcb |-> fcb_addr]
  /\ IF results = <<>>
       THEN /\ search_index' = 0
            /\ regs' = [regs EXCEPT !.DE = fcb_addr, !.A = 255]
            /\ UNCHANGED mem
       ELSE /\ mem' = StoreSeq(mem, current_dma, dir_entry(results[1].path))
            /\ search_index' = 1
            /\ regs' = [regs EXCEPT !.DE = fcb_addr, !.A = 0]
  /\ UNCHANGED <<exit_status, conVars, fileVars, bootVars, machVars>>

bdos_search_next ==
  /\ Running
  /\ last_op' = [op |-> "search_next"]
  /\ IF search_index >= Len(search_results)
       THEN /\ regs' = [regs EXCEPT !.A = 255]
            /\ UNCHANGED <<mem, search_index>>
       ELSE /\ mem' = StoreSeq(mem, current_dma, dir_entry(search_results[search_index + 1]))
            /\ search_index' = search_index + 1
            /\ regs' = [regs EXCEPT !.A = 0]
  /\ UNCHANGED <<exit_status, search_results, conVars, fileVars, bootVars, machVars>>

\* ---- a guest that lists the directory: Search First, then Search Next
\* host files: a.txt and b.txt in the current directory, d/x.txt outside it
HostB2 == <<98, DOT, 116, 120, 116>>
HostDX == <<100, SLASH, 120, DOT, 116, 120, 116>>
CpmA == <<65, DOT, 84, 88, 84>>
CpmB == <<66, DOT, 84, 88, 84>>
CpmC == <<67, DOT, 84, 88, 84>>
Mapping(cpm, unix) ==
  [cpm_pattern |-> cpm, unix_pattern |-> unix, mode |-> MODE_AUTO, eol_convert |-> TRUE]
\* pattern-list mappings given on the command line
SearchMappings == {<<>>, <<Mapping(CpmA, HostA)>>, <<Mapping(CpmA, HostB2)>>,
                   <<Mapping(CpmC, HostDX)>>}
\* secondary map (add_file_mapping)
SearchFileMaps == {<<>>, Put(<<>>, CpmB, HostB2), Put(<<>>, CpmC, HostDX)}
\* FCB patterns: "????????TXT", "????????DAT", "A       TXT", "B       ???"
SearchPatterns == {<<63, 63, 63, 63, 63, 63, 63, 63, 84, 88, 84>>,
                   <<63, 63, 63, 63, 63, 63, 63, 63, 68, 65, 84>>,
                   <<65, 32, 32, 32, 32, 32, 32, 32, 84, 88, 84>>,
                   <<66, 32, 32, 32, 32, 32, 32, 32, 63, 63, 63>>}
\* platform::list_directory("."): the files of the current directory, in any order
DirListings == Orderings({path \in DOMAIN host_fs : FindChar(path, SLASH) = 0})

InitSearch ==
  /\ InitEmulator
  /\ argv = <<>> /\ main_pc = "run"
  /\ host_fs = Put(Put(Put(<<>>, HostA, <<97>>), HostB2, <<>>), HostDX, <<97, 98>>)
  /\ file_mappings \in SearchMappings
  /\ file_map \in SearchFileMaps
  /\ \E pat \in SearchPatterns : mem = StoreSeq(<<>>, DEFAULT_FCB + 1, pat)
  /\ guest = [prog |-> "dir", pattern |-> <<>>, cands |-> <<>>, emitted |-> <<>>,
              ff_seen |-> FALSE, ff_wrote |-> FALSE, revived |-> FALSE]

guest_search_first ==
  \E dir_entries \in DirListings :
    LET pattern == MemSeq(mem, DEFAULT_FCB + 1, 11)
        cands == search_candidates(pattern, dir_entries)
    IN /\ bdos_search_first(DEFAULT_FCB, dir_entries)
       /\ guest' = [prog |-> "dir", pattern |-> pattern,
                    cands |-> [i \in 1..Len(cands) |-> cands[i].cpm],
                    emitted |-> IF regs'.A = 0
                                  THEN <<MemSeq(mem', current_dma + 1, 11)>> ELSE <<>>,
                    ff_seen |-> regs'.A = 255,
                    ff_wrote |-> regs'.A = 255 /\ mem' # mem,
                    revived |-> FALSE]

guest_search_next ==
  /\ last_op.op \in {"search_first", "search_next"}
  /\ bdos_search_next
  /\ guest' = [guest EXCEPT
                 !.emitted = IF regs'.A = 0
                               THEN Append(@, MemSeq(mem', current_dma + 1, 11)) ELSE @,
                 !.ff_seen = regs'.A = 255,
                 !.ff_wrote = @ \/ (regs'.A = 255 /\ mem' # mem),
                 !.revived = @ \/ (guest.ff_seen /\ regs'.A = 0)]

NextSearch == guest_search_first \/ guest_search_next
SpecSearch == InitSearch /\ [][NextSearch]_vars

\* C7: Search First and the Search Next calls after it return each matching
\* (name, ext) at most once, whichever of the three sources the candidate
\* comes from; once 0xFF has been returned every further Search Next returns
\* 0xFF and writes nothing to the DMA buffer; the cursor never exceeds the
\* length of the result list.
C7_SearchOncePerName ==
  guest.prog = "dir" =>
    /\ \A i, j \in 1..Len(guest.emitted) : i # j => guest.emitted[i] # guest.emitted[j]
    /\ ~guest.ff_wrote /\ ~guest.revived
    /\ search_index <= Len(search_results)

\* C8: every directory entry written with A=0 carries the space-padded
\* upper-case guest name and extension of its candidate, and that name
\* matches the search pattern position by position.
C8_EntryNamesCandidate ==
  (guest.prog = "dir" /\ last_op.op \in {"search_first", "search_next"} /\ regs.A = 0)
  => /\ MemSeq(mem, current_dma + 1, 11) = guest.cands[search_index]
     /\ match_fcb_pattern(guest.pattern, MemSeq(mem, current_dma + 1, 11))

\* ============================================== startup: page zero and tail
BIOS_BASE == 65024
BDOS_BASE == 64768
BIOS_WBOOT == 3
IOBYTE_ADDR == 3
DRVUSER_ADDR == 4
BDOS_ENTRY == 5
DPH_ADDR == 64224
DPB_ADDR == 64240
DIRBUF_ADDR == 64256
ALV_ADDR == 64384
CSV_ADDR == 64448
COLON == 58
JMP == 195
Lo(w) == w % 256
Hi(w) == (w \div 256) % 256

setup_memory ==
  LET wboot == StoreSeq(mem, 0, <<JMP, Lo(BIOS_BASE + BIOS_WBOOT), Hi(BIOS_BASE + BIOS_WBOOT)>>)
      boot == StoreSeq(Store(Store(wboot, IOBYTE_ADDR, 0), DRVUSER_ADDR, 0),
                       BDOS_ENTRY, <<JMP, Lo(BDOS_BASE), Hi(BDOS_BASE)>>)
      bios == StoreSeq(boot, BIOS_BASE,
                       [k \in 1..51 |-> IF (k - 1) % 3 = 0 THEN JMP
                                        ELSE IF (k - 1) % 3 = 1 THEN Lo(65280 + (k - 1) \div 3)
                                        ELSE Hi(65280 + (k - 1) \div 3)])
      fcbs == StoreSeq(StoreSeq(bios, DEFAULT_FCB, Fill(36, 0)), DEFAULT_FCB2, Fill(20, 0))
      dph == StoreSeq(fcbs, DPH_ADDR,
                      <<0, 0, 0, 0, 0, 0, 0, 0, Lo(DIRBUF_ADDR), Hi(DIRBUF_ADDR),
                        Lo(DPB_ADDR), Hi(DPB_ADDR), Lo(CSV_ADDR), Hi(CSV_ADDR),
                        Lo(ALV_ADDR), Hi(ALV_ADDR)>>)
      dpb == StoreSeq(dph, DPB_ADDR, <<128, 0, 4, 15, 0, 255, 15, 255, 3, 255, 0, 0, 0, 0, 0>>)
  IN
  /\ Running /\ main_pc = "setup"
  /\ mem' = StoreSeq(StoreSeq(dpb, DIRBUF_ADDR, Fill(128, 229)), ALV_ADDR, Fill(64, 0))
  /\ current_dma' = DEFAULT_DMA
  /\ regs' = [regs EXCEPT !.SP = 65520]
  /\ main_pc' = "cmdline"
  /\ last_op' = [op |-> "setup_memory"]
  /\ UNCHANGED <<exit_status, conVars, host_fs, fps, open_files, current_drive,
                 current_user, config, file_mappings, file_map, searchVars, argv,
                 machVars, guest>>

\* std::string::find(c, from): the 1-based index of the first c at 0-based
\* position >= from, 0 for npos
FindCharFrom(s, c, from) ==
  IF \E i \in (from + 1)..Len(s) : s[i] = c
    THEN CHOOSE i \in (from + 1)..Len(s) : s[i] = c /\ \A j \in (from + 1)..(i - 1) : s[j] # c
    ELSE 0

\* the 12 bytes filename_to_fcb stores after clearing the FCB: drive, name, ext
fcb_fields(filename) ==
  LET upper_name == Upper(filename)
      has_drive == /\ Len(upper_name) >= 2 /\ upper_name[2] = COLON
                   /\ upper_name[1] >= 65 /\ upper_name[1] <= 80
      name_start == IF has_drive THEN 2 ELSE 0
      dot == FindCharFrom(upper_name, DOT, name_start)
      name_len == Min(IF dot # 0 THEN dot - 1 - name_start
                      ELSE Len(upper_name) - name_start, 8)
      ext_len == IF dot # 0 THEN Min(Len(upper_name) - dot, 3) ELSE 0
  IN <<IF has_drive THEN upper_name[1] - 64 ELSE 0>>
       \o [i \in 1..8 |-> IF i <= name_len THEN upper_name[name_start + i] ELSE SPACE]
       \o [i \in 1..3 |-> IF i <= ext_len THEN upper_name[dot + i] ELSE SPACE]

filename_to_fcb(m, filename, fcb_addr) ==
  StoreSeq(StoreSeq(m, fcb_addr, Fill(36, 0)), fcb_addr, fcb_fields(filename))

\* one argument as it goes into the tail: basename, upper case, cut to 8.3
tail_word(arg) ==
  LET arg_upper == Upper(SubSeq(arg, RFindChar(arg, SLASH) + 1, Len(arg)))
      dot == FindChar(arg_upper, DOT)
  IN IF dot > 9 THEN SubSeq(arg_upper, 1, 8) \o SubSeq(arg_upper, dot, Len(arg_upper))
     ELSE arg_upper

RECURSIVE build_cmdline(_, _)
build_cmdline(args, i) ==
  IF i > Len(args) THEN <<>>
  ELSE <<SPACE>> \o tail_word(args[i]) \o build_cmdline(args, i + 1)

setup_command_line ==
  LET cmdline == build_cmdline(argv, 1)
      stored == Min(Len(cmdline), 127)
      tail == StoreSeq(Store(mem, DEFAULT_DMA, stored), DEFAULT_DMA + 1,
                       Upper(SubSeq(cmdline, 1, stored)))
      fcb1 == IF Len(argv) >= 1 THEN filename_to_fcb(tail, argv[1], DEFAULT_FCB) ELSE tail
      fcb2 == IF Len(argv) >= 2 THEN filename_to_fcb(fcb1, argv[2], DEFAULT_FCB2) ELSE fcb1
  IN
  /\ Running /\ main_pc = "cmdline"
  /\ mem' = fcb2
  /\ main_pc' = "load"
  /\ last_op' = [op |-> "setup_command_line"]
  /\ UNCHANGED <<regs, exit_status, conVars, fileVars, searchVars, argv, machVars, guest>>

\* main after its option loop: a positional argument holding ".cfg" is a
\* configuration file, read by load_config_file; its program directive
\* names the program. (A configuration file is held as its directives, one
\* [key, value] per line.)
main_config ==
  LET arg1 == program.arg1
      is_config == Contains(arg1, DotCfg)
      lines == host_fs[arg1]
      named == {i \in 1..Len(lines) : lines[i].key = "program"}
      config_program == IF named = {} THEN <<>>
                        ELSE lines[CHOOSE i \in named : \A j \in named : j <= i].value
  IN
  /\ Running /\ main_pc = "start"
  /\ IF is_config /\ ~FileExists(arg1)
       THEN /\ exit_status' = 1 /\ last_op' = [op |-> "cannot_open_config"]
            /\ UNCHANGED <<main_pc, program>>
     ELSE IF is_config /\ config_program = <<>>
       THEN /\ exit_status' = 1 /\ last_op' = [op |-> "no_program"]
            /\ UNCHANGED <<main_pc, program>>
     ELSE /\ program' = [program EXCEPT !.path = IF is_config THEN config_program ELSE arg1]
          /\ main_pc' = "setup"
          /\ last_op' = [op |-> "main_config"]
          /\ UNCHANGED exit_status
  /\ UNCHANGED <<regs, mem, conVars, fileVars, searchVars, argv, intr, tick, save_memory,
                 guest>>

\* CPM_BIOS_DISK: ok, fail or error in one case or the other; anything else
\* leaves the mode as it is
bios_disk_mode_of(value, mode) ==
  CASE value \in {"ok", "OK"} -> 0
    [] value \in {"fail", "FAIL"} -> 1
    [] value \in {"error", "ERROR"} -> 2
    [] OTHER -> mode

\* main from the environment variables to the top of the step loop: the
\* BIOS disk mode, the program read to 0x0100, PC, the interrupt setup
main_load ==
  /\ Running /\ main_pc = "load"
  /\ config' = [config EXCEPT !.bios_disk_mode = bios_disk_mode_of(program.bios_disk, @)]
  /\ IF ~FileExists(program.path)
       THEN /\ exit_status' = 1 /\ last_op' = [op |-> "cannot_open"]
            /\ UNCHANGED <<regs, mem, main_pc, tick>>
       ELSE /\ mem' = StoreSeq(mem, 256, host_fs[program.path])
            /\ regs' = IF tick.int_cycles > 0
                         THEN [regs EXCEPT !.PC = 256, !.IFF1 = 1, !.IFF2 = 1, !.IM = 1]
                         ELSE [regs EXCEPT !.PC = 256]
            /\ tick' = [tick EXCEPT !.next_tick_cycles_ = tick.int_cycles]
            /\ main_pc' = "run"
            /\ last_op' = [op |-> "main_load"]
            /\ UNCHANGED exit_status
  /\ UNCHANGED <<conVars, host_fs, fps, open_files, current_dma, current_drive, current_user,
                 file_mappings, file_map, searchVars, argv, intr, save_memory, program, guest>>

\* trailing arguments: "a.txt", "d/x.y", "verylongname.txt" and one long word
ArgWords == {<<97, DOT, 116, 120, 116>>, <<100, SLASH, 120, DOT, 121>>,
             <<118, 101, 114, 121, 108, 111, 110, 103, 110, 97, 109, 101, DOT, 116, 120, 116>>,
             Fill(DMA_SIZE, 122)}

InitCmd ==
  /\ InitEmulator
  /\ host_fs = [x \in {ProgramCom} |-> <<118>>] /\ file_mappings = <<>> /\ file_map = <<>>
  /\ mem = <<>>
  /\ argv \in SeqsUpTo(ArgWords, MaxArgs)
  /\ main_pc = "setup"
  /\ guest = [prog |-> "none"]

NextCmd == setup_memory \/ setup_command_line \/ main_load
SpecCmd == InitCmd /\ [][NextCmd]_vars

\* C9: after startup with any number of trailing arguments, byte 0x0080 is
\* min(length of the tail, 127), the bytes after it hold the upper-cased
\* tail, and the FCBs at 0x005C and 0x006C hold the first two arguments:
\* filling the FCBs leaves the length byte and the tail bytes as stored.
C9_TailAndFcbs ==
  main_pc = "run" =>
    LET cmdline == build_cmdline(argv, 1)
        len == Min(Len(cmdline), 127)
    IN /\ Fetch(mem, DEFAULT_DMA) = len
       /\ MemSeq(mem, DEFAULT_DMA + 1, len) = Upper(SubSeq(cmdline, 1, len))
       /\ Len(argv) >= 1 => MemSeq(mem, DEFAULT_FCB, 12) = fcb_fields(argv[1])
       /\ Len(argv) >= 2 => MemSeq(mem, DEFAULT_FCB2, 12) = fcb_fields(argv[2])

\* ===================================================== CPU: block transfer
cpu_flags_S == 128
cpu_flags_Z == 64
cpu_flags_Y == 32
cpu_flags_H == 16
cpu_flags_X == 8
cpu_flags_P == 4
cpu_flags_N == 2
cpu_flags_CY == 1
\* flags & mask # 0, for a one-bit mask
HasBit(flags, mask) == (flags \div mask) % 2 = 1
BitIf(cond, mask) == IF cond THEN mask ELSE 0

\* 8080 mode: bits 3 and 5 cleared, bit 1 forced to 1
fix_flags_raw(cpu_mode, new_flags) == new_flags
fix_flags(cpu_mode, new_flags) ==
  IF cpu_mode = MODE_8080
    THEN new_flags - BitIf(HasBit(new_flags, cpu_flags_X), cpu_flags_X)
                   - BitIf(HasBit(new_flags, cpu_flags_Y), cpu_flags_Y)
                   + BitIf(~HasBit(new_flags, cpu_flags_N), cpu_flags_N)
    ELSE new_flags

block_ld_pv_always(bc_after) == TRUE
\* P/V after a block load: set while BC is non-zero after the decrement
block_ld_pv(bc_after) == bc_after # 0

\* the flag byte set_flags_from_block_ld stores
set_flags_from_block_ld(r, a_val, copied_byte, bc_after) ==
  LET flags == fix_flags(r.cpu_mode, r.F)
      n == Byte(a_val + copied_byte)
  IN fix_flags(r.cpu_mode,
       BitIf(HasBit(flags, cpu_flags_S), cpu_flags_S)
       + BitIf(HasBit(flags, cpu_flags_Z), cpu_flags_Z)
       + BitIf(HasBit(flags, cpu_flags_CY), cpu_flags_CY)
       + BitIf(block_ld_pv(bc_after), cpu_flags_P)
       + BitIf(r.cpu_mode = MODE_Z80 /\ HasBit(n, 8), cpu_flags_X)
       + BitIf(r.cpu_mode = MODE_Z80 /\ HasBit(n, 2), cpu_flags_Y))

\* ------------------------------------------------ qkz80::execute, by parts
\* what one call leaves: registers, memory, the exit status if the call ended
\* the process (RUNNING otherwise) and the name of the instruction
Done(r, m, op) == [regs |-> r, mem |-> m, exit |-> RUNNING, op |-> op]
Exited(r, m, status, op) == [regs |-> r, mem |-> m, exit |-> status, op |-> op]

read_word(m, addr) == Fetch(m, addr) + 256 * Fetch(m, Word(addr + 1))
write_2_bytes(m, store_me, location) ==
  Store(Store(m, location, store_me % 256), Word(location + 1), store_me \div 256)
pop_word_keeps_sp(r, m) == [word |-> read_word(m, r.SP), regs |-> r]
\* pop_word: the word at SP, and SP + 2
pop_word(r, m) == [word |-> read_word(m, r.SP), regs |-> [r EXCEPT !.SP = Word(@ + 2)]]
\* push_word: SP - 2, then the word stored there
push_word(r, m, aword) ==
  LET sp_val == Word(r.SP + 65534)
  IN [regs |-> [r EXCEPT !.SP = sp_val], mem |-> write_2_bytes(m, aword, sp_val)]

\* the instructions after an ED prefix, Z80 mode; r.PC is past the opcode
execute_ed(r, m, opcode) ==
  CASE opcode = 176 ->     \* LDIR
         LET byte_val == Fetch(m, r.HL)
             bc_after == Word(r.BC + 65535)
         IN Done([r EXCEPT !.HL = Word(@ + 1), !.DE = Word(@ + 1), !.BC = bc_after,
                           !.F = set_flags_from_block_ld(r, r.A, byte_val, bc_after),
                           !.PC = IF r.BC # 1 THEN Word(@ + 65534) ELSE @],
                 Store(m, r.DE, byte_val), "ldir")

\* get_flags / set_flags: the flag byte passes through fix_flags both ways
get_flags(r) == fix_flags(r.cpu_mode, r.F)
set_flags(r, new_flags) == [r EXCEPT !.F = fix_flags(r.cpu_mode, new_flags)]

\* get_reg16 / set_reg16 by register pair; AF is A and the flag byte
get_reg16(r, rp) ==
  CASE rp = "BC" -> r.BC
    [] rp = "DE" -> r.DE
    [] rp = "HL" -> r.HL
    [] rp = "SP" -> r.SP
    [] rp = "AF" -> 256 * r.A + get_flags(r)
    [] rp = "IX" -> r.IX
    [] rp = "IY" -> r.IY
set_reg16(r, a, rp) ==
  CASE rp = "BC" -> [r EXCEPT !.BC = a]
    [] rp = "DE" -> [r EXCEPT !.DE = a]
    [] rp = "HL" -> [r EXCEPT !.HL = a]
    [] rp = "SP" -> [r EXCEPT !.SP = a]
    [] rp = "AF" -> set_flags([r EXCEPT !.A = a \div 256], a % 256)
    [] rp = "IX" -> [r EXCEPT !.IX = a]
    [] rp = "IY" -> [r EXCEPT !.IY = a]
\* active_hl: the pair that stands for HL after a DD or FD prefix
active_hl(pfx) ==
  IF pfx.has_dd_prefix THEN "IX" ELSE IF pfx.has_fd_prefix THEN "IY" ELSE "HL"
\* the pair bits 4-5 of a PUSH or POP opcode select: code 3 means AF
push_pop_pair(opcode, pfx) ==
  LET rpair == (opcode \div 16) % 4
  IN CASE rpair = 0 -> "BC"
       [] rpair = 1 -> "DE"
       [] rpair = 2 -> active_hl(pfx)
       [] rpair = 3 -> "AF"

\* get_reg8 for B, C, D, E and A, and M = the byte at HL
get_reg8(r, m, rnum) ==
  CASE rnum = 0 -> r.BC \div 256
    [] rnum = 1 -> r.BC % 256
    [] rnum = 2 -> r.DE \div 256
    [] rnum = 3 -> r.DE % 256
    [] rnum = 4 -> r.HL \div 256
    [] rnum = 5 -> r.HL % 256
    [] rnum = 6 -> Fetch(m, r.HL)
    [] rnum = 7 -> r.A
fetch_carry_as_int(r) == IF HasBit(get_flags(r), cpu_flags_CY) THEN 1 ELSE 0

\* bit i of x, and the one-bit operators of the adders
BitOf(x, i) == (x \div (2 ^ i)) % 2
BitOr(a, b) == IF a + b > 0 THEN 1 ELSE 0
even_parity(i) ==
  IF (BitOf(i, 0) + BitOf(i, 1) + BitOf(i, 2) + BitOf(i, 3)
      + BitOf(i, 4) + BitOf(i, 5) + BitOf(i, 6) + BitOf(i, 7)) % 2 = 0 THEN 1 ELSE 0

\* the loop of add8_bitwise (borrow = FALSE) and sub8_bitwise (borrow = TRUE):
\* bit i of the result is s1 ^ s2 ^ cy, the carry out is
\* (s2 & cy) | (s1 & (s2 | cy)), with ~s1 for s1 in a subtraction
RECURSIVE bitwise8_loop(_, _, _, _, _)
bitwise8_loop(s1, s2, i, st, borrow) ==
  IF i = 8 THEN st
  ELSE LET b1 == BitOf(s1, i)
           b2 == BitOf(s2, i)
           lhs == IF borrow THEN 1 - b1 ELSE b1
           cy == BitOr(b2 * st.cy, lhs * BitOr(b2, st.cy))
       IN bitwise8_loop(s1, s2, i + 1,
            [result |-> st.result + ((b1 + b2 + st.cy) % 2) * (2 ^ i),
             cy |-> cy,
             flag_h |-> IF i = 3 THEN cy ELSE st.flag_h,
             c6 |-> IF i = 6 THEN cy ELSE st.c6,
             flag_c |-> IF i = 7 THEN cy ELSE st.flag_c], borrow)
bitwise8(s1, s2, carry_in, borrow) ==
  LET st == bitwise8_loop(s1, s2, 0,
              [result |-> 0, cy |-> IF carry_in # 0 THEN 1 ELSE 0,
               flag_h |-> 0, c6 |-> 0, flag_c |-> 0], borrow)
  IN [result |-> st.result, flag_h |-> st.flag_h, flag_c |-> st.flag_c,
      flag_v |-> (st.flag_c + st.c6) % 2,
      flag_x |-> BitOf(st.result, 3), flag_y |-> BitOf(st.result, 5),
      flag_z |-> IF st.result = 0 THEN 1 ELSE 0, flag_s |-> BitOf(st.result, 7)]
add8_bitwise(s1, s2, carry_in) == bitwise8(s1, s2, carry_in, FALSE)
sub8_bitwise(minuend, subtrahend, borrow_in) == bitwise8(minuend, subtrahend, borrow_in, TRUE)

set_flags_from_sum8_parity(r, result, val1, val2, carry) ==
  LET b == add8_bitwise(val1, val2, carry)
  IN set_flags(r, BitIf(b.flag_c = 1, cpu_flags_CY) + BitIf(b.flag_h = 1, cpu_flags_H)
                  + BitIf(b.flag_z = 1, cpu_flags_Z) + BitIf(b.flag_s = 1, cpu_flags_S)
                  + BitIf(b.flag_x = 1, cpu_flags_X) + BitIf(b.flag_y = 1, cpu_flags_Y)
                  + BitIf(even_parity(result % 256) = 1, cpu_flags_P))
\* set_flags_from_sum8: ADD and ADC; N = 0; P/V is the overflow on the Z80
\* and the parity of the result on the 8080
set_flags_from_sum8(r, result, val1, val2, carry) ==
  LET b == add8_bitwise(val1, val2, carry)
      pv == IF r.cpu_mode = MODE_Z80 THEN b.flag_v = 1
            ELSE even_parity(result % 256) = 1
  IN set_flags(r, BitIf(b.flag_c = 1, cpu_flags_CY) + BitIf(b.flag_h = 1, cpu_flags_H)
                  + BitIf(b.flag_z = 1, cpu_flags_Z) + BitIf(b.flag_s = 1, cpu_flags_S)
                  + BitIf(b.flag_x = 1, cpu_flags_X) + BitIf(b.flag_y = 1, cpu_flags_Y)
                  + BitIf(pv, cpu_flags_P))
\* set_flags_from_diff8: SUB, SBC and CP; N = 1; on the 8080 the half carry
\* is ~(val1 ^ result ^ val2) & 0x10, not the borrow
set_flags_from_diff8(r, result, val1, val2, carry) ==
  LET b == sub8_bitwise(val1, val2, carry)
      result8 == result % 256
      hc == IF r.cpu_mode = MODE_Z80 THEN b.flag_h = 1
            ELSE (BitOf(val1, 4) + BitOf(result8, 4) + BitOf(val2, 4)) % 2 = 0
      pv == IF r.cpu_mode = MODE_Z80 THEN b.flag_v = 1
            ELSE even_parity(result8) = 1
  IN set_flags(r, BitIf(b.flag_c = 1, cpu_flags_CY) + BitIf(hc, cpu_flags_H)
                  + BitIf(b.flag_z = 1, cpu_flags_Z) + BitIf(b.flag_s = 1, cpu_flags_S)
                  + BitIf(b.flag_x = 1, cpu_flags_X) + BitIf(b.flag_y = 1, cpu_flags_Y)
                  + cpu_flags_N + BitIf(pv, cpu_flags_P))

\* ADD / ADC / SUB / SBC / CP of A and regb: alu_op is bits 3-5 of the opcode
\* (0 ADD, 1 ADC, 2 SUB, 3 SBC, 7 CP); the results are unsigned and wrap
alu8(r, alu_op, regb) ==
  LET rega == r.A
      carry == IF alu_op \in {1, 3} THEN fetch_carry_as_int(r) ELSE 0
      sum == rega + regb + carry
      diff == (rega - regb - carry) + 65536
  IN CASE alu_op \in {0, 1} ->
            [set_flags_from_sum8(r, sum, rega, regb, carry) EXCEPT !.A = sum % 256]
       [] alu_op \in {2, 3} ->
            [set_flags_from_diff8(r, diff, rega, regb, carry) EXCEPT !.A = diff % 256]
       [] alu_op = 7 ->     \* CP: X and Y come from the operand
            LET d == set_flags_from_diff8(r, diff, rega, regb, 0)
                flags == get_flags(d)
            IN set_flags(d, flags - BitIf(HasBit(flags, cpu_flags_X), cpu_flags_X)
                                  - BitIf(HasBit(flags, cpu_flags_Y), cpu_flags_Y)
                                  + BitIf(HasBit(regb, 8), cpu_flags_X)
                                  + BitIf(HasBit(regb, 32), cpu_flags_Y))
\* the opcodes this model executes through alu8: the register forms
\* (H, L and M without a DD / FD prefix only) and the immediate forms
\* ADI, ACI, SUI, SBI, CPI
AluRegOpcodes == {op \in 128..191 : ((op \div 8) % 8) \in {0, 1, 2, 3, 7}}
AluImmOpcodes == {198, 206, 214, 222, 254}

\* add16_bitwise: the same loop over sixteen bits, H from bit 11, C from bit 15
RECURSIVE add16_loop(_, _, _, _)
add16_loop(s1, s2, i, st) ==
  IF i = 16 THEN st
  ELSE LET b1 == BitOf(s1, i)
           b2 == BitOf(s2, i)
           cy == BitOr(b2 * st.cy, b1 * BitOr(b2, st.cy))
       IN add16_loop(s1, s2, i + 1,
            [result |-> st.result + ((b1 + b2 + st.cy) % 2) * (2 ^ i),
             cy |-> cy,
             flag_h |-> IF i = 11 THEN cy ELSE st.flag_h,
             c14 |-> IF i = 14 THEN cy ELSE st.c14,
             flag_c |-> IF i = 15 THEN cy ELSE st.flag_c])
add16_bitwise(s1, s2, carry_in) ==
  LET st == add16_loop(s1, s2, 0,
              [result |-> 0, cy |-> IF carry_in # 0 THEN 1 ELSE 0,
               flag_h |-> 0, c14 |-> 0, flag_c |-> 0])
  IN [result |-> st.result, flag_h |-> st.flag_h, flag_c |-> st.flag_c,
      flag_v |-> (st.flag_c + st.c14) % 2,
      flag_x |-> BitOf(st.result, 11), flag_y |-> BitOf(st.result, 13),
      flag_z |-> IF st.result = 0 THEN 1 ELSE 0, flag_s |-> BitOf(st.result, 15)]

set_flags_from_add16_all(r, result, val1, val2) ==
  LET b == add16_bitwise(val1 % 65536, val2 % 65536, 0)
  IN set_flags(r, BitIf(b.flag_s = 1, cpu_flags_S) + BitIf(b.flag_z = 1, cpu_flags_Z)
                  + BitIf(b.flag_v = 1, cpu_flags_P)
                  + BitIf(b.flag_c = 1, cpu_flags_CY) + BitIf(b.flag_h = 1, cpu_flags_H)
                  + BitIf(b.flag_x = 1, cpu_flags_X) + BitIf(b.flag_y = 1, cpu_flags_Y))
\* set_flags_from_add16: S, Z and P/V kept from get_flags, N cleared, C, H,
\* X and Y from the sixteen-bit addition
set_flags_from_add16(r, result, val1, val2) ==
  LET flags == get_flags(r)
      b == add16_bitwise(val1 % 65536, val2 % 65536, 0)
  IN set_flags(r, BitIf(HasBit(flags, cpu_flags_S), cpu_flags_S)
                  + BitIf(HasBit(flags, cpu_flags_Z), cpu_flags_Z)
                  + BitIf(HasBit(flags, cpu_flags_P), cpu_flags_P)
                  + BitIf(b.flag_c = 1, cpu_flags_CY) + BitIf(b.flag_h = 1, cpu_flags_H)
                  + BitIf(b.flag_x = 1, cpu_flags_X) + BitIf(b.flag_y = 1, cpu_flags_Y))
\* set_carry_from_int: bit 0 of x into CY, the other flags as get_flags reads them
set_carry_from_int(r, x) ==
  LET flags == get_flags(r)
  IN set_flags(r, flags - BitIf(HasBit(flags, cpu_flags_CY), cpu_flags_CY)
                  + BitIf(x % 2 = 1, cpu_flags_CY))
\* DAD / ADD HL,ss / ADD IX,ss / ADD IY,ss: pair code 2 names the active pair
\* itself; the 8080 sets the carry only
dad(r, opcode, pfx) ==
  LET code == (opcode \div 16) % 4
      rp == CASE code = 0 -> "BC" [] code = 1 -> "DE"
              [] code = 2 -> active_hl(pfx) [] code = 3 -> "SP"
      pair1 == get_reg16(r, rp)
      pair2 == get_reg16(r, active_hl(pfx))
      sum == pair1 + pair2
      stored == set_reg16(r, sum % 65536, active_hl(pfx))
  IN IF r.cpu_mode = MODE_Z80
       THEN set_flags_from_add16(stored, sum, pair2, pair1)
       ELSE set_carry_from_int(stored, IF sum >= 65536 THEN 1 ELSE 0)

\* set_flags_from_daa: C and H as given, S, Z and parity from the result,
\* N as it was before, X and Y from the result on the Z80
set_flags_from_daa(r, result, n_flag, half_carry, carry) ==
  set_flags(r, BitIf(carry # 0, cpu_flags_CY) + BitIf(half_carry # 0, cpu_flags_H)
               + BitIf(result = 0, cpu_flags_Z) + BitIf(result >= 128, cpu_flags_S)
               + BitIf(n_flag # 0, cpu_flags_N)
               + BitIf(even_parity(result) = 1, cpu_flags_P)
               + BitIf(r.cpu_mode = MODE_Z80 /\ HasBit(result, 8), cpu_flags_X)
               + BitIf(r.cpu_mode = MODE_Z80 /\ HasBit(result, 32), cpu_flags_Y))
\* case 0x27, DAA: the adjustment byte and the new C and H from C, H, N as
\* get_flags reads them and the two nibbles of A; subtracted when N is set
daa(r) ==
  LET rega == r.A
      flags == get_flags(r)
      low == rega % 16
      high == rega \div 16
      flag_c == fetch_carry_as_int(r) = 1
      flag_h == HasBit(flags, cpu_flags_H)
      flag_n == HasBit(flags, cpu_flags_N)
      diff == IF flag_c
                THEN (IF low < 10 THEN (IF flag_h THEN 102 ELSE 96) ELSE 102)
                ELSE IF low < 10
                  THEN (IF high < 10 THEN (IF flag_h THEN 6 ELSE 0)
                                     ELSE (IF flag_h THEN 102 ELSE 96))
                  ELSE (IF high < 9 THEN 6 ELSE 102)
      new_c == IF flag_c THEN 1
               ELSE IF low < 10 THEN (IF high < 10 THEN 0 ELSE 1)
               ELSE (IF high < 9 THEN 0 ELSE 1)
      new_h == IF flag_n THEN (IF flag_h THEN (IF low < 6 THEN 1 ELSE 0) ELSE 0)
               ELSE (IF low < 10 THEN 0 ELSE 1)
      result == IF flag_n THEN (rega - diff + 256) % 256 ELSE (rega + diff) % 256
  IN set_flags_from_daa([r EXCEPT !.A = result], result,
                        IF flag_n THEN 1 ELSE 0, new_h, new_c)

halt_returns(r, m) == Done(r, m, "hlt")
\* halt: the register dump, then exit(1)
halt(r, m) == Exited(r, m, 1, "hlt")

\* set_reg8 / get_reg8 for the registers held in pairs
SetHigh(pair, dat) == 256 * dat + (pair % 256)
SetLow(pair, dat) == 256 * (pair \div 256) + dat

\* the main switch on opcode; r.PC is past the opcode and its prefixes, pfx
\* tells which prefixes came before it
execute_main(r, m, opcode, pfx) ==
  CASE opcode = 0 -> Done(r, m, "nop")
    [] opcode = 14 ->      \* MVI C,n
         Done([r EXCEPT !.BC = SetLow(@, Fetch(m, r.PC)), !.PC = Word(@ + 1)], m, "mvi")
    [] opcode \in {1, 17, 33, 49} ->      \* LXI rp,nn
         LET rpair == <<"BC", "DE", "HL", "SP">>[((opcode \div 16) % 4) + 1]
         IN Done(set_reg16([r EXCEPT !.PC = Word(@ + 2)], read_word(m, r.PC),
                           IF rpair = "HL" THEN active_hl(pfx) ELSE rpair), m, "lxi")
    [] opcode = 62 ->      \* MVI A,n
         Done([r EXCEPT !.A = Fetch(m, r.PC), !.PC = Word(@ + 1)], m, "mvi")
    [] opcode \in {193, 209, 225, 241} ->     \* POP
         LET p == pop_word(r, m)
         IN Done(set_reg16(p.regs, p.word, push_pop_pair(opcode, pfx)), m, "pop")
    [] opcode \in {197, 213, 229, 245} ->     \* PUSH
         LET p == push_word(r, m, get_reg16(r, push_pop_pair(opcode, pfx)))
         IN Done(p.regs, p.mem, "push")
    [] /\ opcode \in AluRegOpcodes
       /\ (opcode % 8) \in {4, 5, 6} => ~(pfx.has_dd_prefix \/ pfx.has_fd_prefix) ->
         Done(alu8(r, (opcode \div 8) % 8, get_reg8(r, m, opcode % 8)), m, "alu8")
    [] opcode \in AluImmOpcodes ->
         Done(alu8([r EXCEPT !.PC = Word(@ + 1)], (opcode \div 8) % 8, Fetch(m, r.PC)),
              m, "alu8")
    [] opcode \in {9, 25, 41, 57} -> Done(dad(r, opcode, pfx), m, "dad")
    [] opcode = 39 -> Done(daa(r), m, "daa")
    [] opcode = 8 ->     \* EX AF,AF': nothing on the 8080, the raw pairs on the Z80
         IF r.cpu_mode = MODE_8080 THEN Done(r, m, "ex_af")
         ELSE Done([r EXCEPT !.A = r.AF_ \div 256, !.F = r.AF_ % 256,
                             !.AF_ = 256 * r.A + r.F], m, "ex_af")
    [] opcode = 205 ->     \* CALL
         LET p == push_word([r EXCEPT !.PC = Word(@ + 2)], m, Word(r.PC + 2))
         IN Done([p.regs EXCEPT !.PC = read_word(m, r.PC)], p.mem, "call")
    [] opcode \in {221, 253} ->     \* default: unimplemented opcode, exit(1)
         Exited(r, m, 1, "unimplemented")
    [] opcode = 118 -> halt(r, m)
    [] opcode = 195 ->     \* JMP
         Done([r EXCEPT !.PC = read_word(m, r.PC)], m, "jmp")
    [] opcode = 201 ->     \* RET
         LET p == pop_word(r, m)
         IN Done([p.regs EXCEPT !.PC = p.word], m, "ret")
    [] opcode = 243 -> Done(r, m, "di")     \* DI: trace only
    [] opcode = 251 -> Done(r, m, "ei")     \* EI: trace only

\* the CB-prefixed instructions (Z80 mode): rotates, shifts, BIT, RES, SET.
\* None of the guest programs of this model contains one.
execute_cb(r, m, p) ==
  CASE FALSE -> Done(r, m, "cb")

\* the loop over DD / FD prefixes (Z80 mode): the last one wins, at most four;
\* pc is past opcode. A CB after them takes the displacement and the opcode.
RECURSIVE prefix_loop(_, _, _, _)
prefix_loop(m, pc, opcode, pfx) ==
  IF opcode \in {221, 253} /\ pfx.prefix_count < 4
    THEN LET next == Fetch(m, pc)
             seen == [pfx EXCEPT !.prefix_count = @ + 1, !.has_dd_prefix = (opcode = 221),
                                 !.has_fd_prefix = (opcode = 253)]
         IN IF next = 203
              THEN [pc |-> Word(pc + 3), opcode |-> Fetch(m, Word(pc + 2)),
                    pfx |-> [seen EXCEPT !.has_cb_prefix = TRUE,
                                         !.index_offset = Fetch(m, Word(pc + 1))]]
              ELSE prefix_loop(m, Word(pc + 1), next, seen)
    ELSE [pc |-> pc, opcode |-> opcode, pfx |-> pfx]
NoPrefix == [prefix_count |-> 0, has_dd_prefix |-> FALSE, has_fd_prefix |-> FALSE,
             has_cb_prefix |-> FALSE, index_offset |-> 0]

\* qkz80::execute on registers r and memory m: cycles += 5, the prefix bytes,
\* then the instruction
\* a call of pull_byte_from_opcode_stream whose byte is not used: PC++
pull_no_byte(r) == r
pull_byte_from_opcode_stream(r) == [r EXCEPT !.PC = Word(@ + 1)]

execute_on(r0, m) ==
  LET r1 == [r0 EXCEPT !.cycles = @ + 5, !.PC = Word(@ + 1)]
      first == Fetch(m, r0.PC)
      p == prefix_loop(m, r1.PC, first, NoPrefix)
      r2 == [r1 EXCEPT !.PC = p.pc]
      r3 == pull_byte_from_opcode_stream(r2)
  IN IF first \in {221, 253} /\ r0.cpu_mode = MODE_8080
       THEN Done(r1, m, "nop1")     \* DD / FD is a one-byte NOP on the 8080
     ELSE IF p.opcode = 237
       THEN IF r0.cpu_mode = MODE_8080
              THEN Done(r3, m, "nop2")     \* ED xx is a two-byte NOP on the 8080
              ELSE execute_ed(r3, m, Fetch(m, r2.PC))
     ELSE IF p.opcode = 203 \/ p.pfx.has_cb_prefix
       THEN IF r0.cpu_mode = MODE_8080
              THEN Done(r3, m, "nop2")     \* CB xx is a two-byte NOP on the 8080
              ELSE execute_cb(r2, m, p)
     ELSE execute_main(r2, m, p.opcode, p.pfx)

\* cpu.execute() as the step loop calls it: handle_pc has found no trap
execute ==
  LET pc == regs.PC
      x == execute_on(regs, mem)
  IN
  /\ Running /\ main_pc = "run"
  /\ pc # 0 /\ pc # BDOS_BASE /\ ~(pc >= 65280 /\ pc < 65312)
  /\ regs' = x.regs
  /\ mem' = x.mem
  /\ exit_status' = x.exit
  /\ last_op' = [op |-> x.op]
  /\ UNCHANGED <<conVars, fileVars, searchVars, bootVars, machVars>>

\* ---- the guest program NOP / LDIR / HLT at 0x0100, run by the step loop
LdirAt == 257
\* (HL, DE) at the start: plain, destination wrapping past 0xFFFF, source wrapping
LdirPairs == {<<4096, 8192>>, <<4096, 65534>>, <<65535, 8192>>}
LdirAs == {0, 10}
LdirFlags == {0, 215, 65}
SrcByte(i) == 17 * (i + 1)
Range(a, n) == {Word(a + i) : i \in 0..(n - 1)}

InitCpu ==
  /\ InitDevices /\ InitMachine
  /\ host_fs = <<>> /\ file_mappings = <<>> /\ file_map = <<>>
  /\ argv = <<>> /\ main_pc = "run"
  /\ \E n \in 1..MaxN, p \in LdirPairs, a \in LdirAs, f \in LdirFlags,
        m \in {MODE_Z80, MODE_8080} :
       /\ Range(p[1], n) \cap Range(p[2], n) = {}
       /\ regs = [InitRegs EXCEPT !.A = a, !.F = f, !.BC = n, !.HL = p[1], !.DE = p[2],
                                  !.cpu_mode = m]
       /\ mem = StoreSeq([x \in Range(p[1], n) |-> SrcByte((x + 65536 - p[1]) % 65536)],
                         256, <<0, 237, 176, 118>>)
       /\ guest = [prog |-> "ldir", n |-> n, hl0 |-> p[1], de0 |-> p[2], f0 |-> f,
                   execs |-> 0]

\* one pass of the step loop of main: handle_pc finds no trap, no interrupt
\* is pending (no tick configured), cpu.execute() runs one instruction
main_step ==
  /\ execute
  /\ guest' = IF last_op'.op = "ldir" THEN [guest EXCEPT !.execs = @ + 1] ELSE guest

NextCpu == main_step
SpecCpu == InitCpu /\ [][NextCpu]_vars
\* the step loop is while (true): it never stops taking a step that is possible
SpecCpuFair == SpecCpu /\ WF_vars(NextCpu)

SameFlag(f, g, mask) == HasBit(f, mask) <=> HasBit(g, mask)
LdirStarted ==
  /\ guest.prog = "ldir" /\ regs.cpu_mode = MODE_Z80
  /\ Running /\ regs.PC = LdirAt /\ guest.execs = 0
LdirLeft ==
  /\ Running /\ regs.PC = LdirAt + 2 /\ guest.execs = guest.n
LdirProgress ==
  (guest.prog = "ldir" /\ regs.cpu_mode = MODE_Z80) =>
    /\ guest.execs <= guest.n
    /\ regs.BC = guest.n - guest.execs
    /\ regs.HL = Word(guest.hl0 + guest.execs)
    /\ regs.DE = Word(guest.de0 + guest.execs)
    /\ \A i \in 0..(guest.execs - 1) : Fetch(mem, Word(guest.de0 + i)) = SrcByte(i)
    /\ \A i \in 0..(guest.n - 1) : Fetch(mem, Word(guest.hl0 + i)) = SrcByte(i)
    /\ SameFlag(regs.F, guest.f0, cpu_flags_S)
    /\ SameFlag(regs.F, guest.f0, cpu_flags_Z)
    /\ SameFlag(regs.F, guest.f0, cpu_flags_CY)
    /\ (guest.execs >= 1 /\ guest.execs < guest.n) =>
         /\ regs.PC = LdirAt
         /\ HasBit(regs.F, cpu_flags_P)
    /\ guest.execs = guest.n =>
         /\ regs.PC = (IF Running THEN LdirAt + 2 ELSE LdirAt + 3)
         /\ ~HasBit(regs.F, cpu_flags_H) /\ ~HasBit(regs.F, cpu_flags_N)
         /\ ~HasBit(regs.F, cpu_flags_P)

\* C10: in Z80 mode LDIR started with BC = n >= 1 on non-overlapping ranges
\* is left by the step loop after exactly n executions, with PC after ED B0,
\* the n destination bytes equal to the source bytes, HL and DE advanced by
\* n, BC = 0 and H, N, P/V clear; every execution that leaves BC non-zero
\* puts PC back on the instruction and sets P/V; S, Z and C keep their values.
C10_LdirCompletes == [](LdirProgress) /\ (LdirStarted ~> LdirLeft)

\* the longest transfer has been left, with the destination wrapped past 0xFFFF
C10_Witness ==
  /\ LdirLeft /\ regs.cpu_mode = MODE_Z80
  /\ guest.n = MaxN /\ regs.BC = 0
  /\ guest.de0 = 65534 /\ regs.DE = Word(65534 + MaxN)
  /\ \A i \in 0..(MaxN - 1) : Fetch(mem, Word(guest.de0 + i)) = SrcByte(i)

\* ================================================== CPU: periodic interrupt
\* request_int(vector): a maskable interrupt is pending with that vector
request_int(i, vector) == [i EXCEPT !.int_pending = TRUE, !.int_vector = vector]
\* request_rst(n): request_int with the opcode of RST n
request_rst(i, rst_num) == request_int(i, 199 + 8 * rst_num)

\* check_interrupts, between instructions: NMI first, then INT while IFF1 is set
check_interrupts(r, m, i) ==
  LET pushed == push_word(r, m, r.PC)
      went(rr, addr, ii, how) ==
        [regs |-> [rr EXCEPT !.PC = addr], mem |-> pushed.mem, intr |-> ii, delivered |-> how]
  IN IF i.nmi_pending
       THEN went([pushed.regs EXCEPT !.IFF1 = 0], 102, [i EXCEPT !.nmi_pending = FALSE], "nmi")
     ELSE IF i.int_pending /\ r.IFF1 # 0
       THEN LET off == [pushed.regs EXCEPT !.IFF1 = 0, !.IFF2 = 0]
                ii == [i EXCEPT !.int_pending = FALSE]
            IN CASE r.IM = 0 -> went(off, i.int_vector - 199, ii, "int")
                 [] r.IM = 1 -> went(off, 56, ii, "int")
                 [] r.IM = 2 ->
                      went(off, read_word(m, 256 * r.I + 2 * (i.int_vector \div 2)), ii, "int")
       ELSE [regs |-> r, mem |-> m, intr |-> i, delivered |-> "none"]

\* ---- guests: EI then a NOP loop, or the NOP loop alone; a handler at 0x0038
IntGuests == {"ei", "noei"}
\* the handler: EI, RET (re-enables) or RET alone
IntHandlers == {<<251, 201>>, <<201>>}
IntProgram(g) == IF g = "ei" THEN <<251, 0, 195, 1, 1>> ELSE <<0, 195, 0, 1>>

\* main with --int-cycles=TickCycles --int-rst=7, at the top of its step loop:
\* IFF1, IFF2 and IM set, the first deadline recorded. The constructor of
\* qkz80 leaves int_pending and nmi_pending without a value.
InitInt ==
  /\ InitDevices
  /\ host_fs = <<>> /\ file_mappings = <<>> /\ file_map = <<>>
  /\ argv = <<>> /\ main_pc = "run"
  /\ save_memory = [file |-> <<>>, start |-> 0, end |-> 0]
  /\ program = [arg1 |-> ProgramCom, path |-> ProgramCom, bios_disk |-> "unset"]
  /\ tick = [int_cycles |-> TickCycles, int_rst |-> 7, next_tick_cycles_ |-> TickCycles]
  /\ \E ip \in BOOLEAN, np \in BOOLEAN, g \in IntGuests, h \in IntHandlers,
        m \in {MODE_Z80, MODE_8080} :
       /\ intr = [int_pending |-> ip, nmi_pending |-> np, int_vector |-> 255]
       /\ regs = [InitRegs EXCEPT !.IFF1 = 1, !.IFF2 = 1, !.IM = 1, !.cpu_mode = m]
       /\ mem = StoreSeq(StoreSeq(<<>>, 56, h), 256, IntProgram(g))
       /\ guest = [prog |-> g, reenables |-> (h[1] = 251), irqs |-> 0, ei_done |-> FALSE,
                   clean |-> ~ip /\ ~np]

\* one pass of the step loop with the tick armed: the deadline test and
\* request_rst, check_interrupts, then cpu.execute()
main_loop ==
  LET pc == regs.PC
      due == tick.int_cycles > 0 /\ regs.cycles >= tick.next_tick_cycles_
      requested == IF due THEN request_rst(intr, tick.int_rst) ELSE intr
      c == check_interrupts(regs, mem, requested)
      x == execute_on(c.regs, c.mem)
  IN
  /\ Running /\ main_pc = "run"
  /\ pc # 0 /\ pc # BDOS_BASE /\ ~(pc >= 65280 /\ pc < 65312)
  /\ tick' = IF due THEN [tick EXCEPT !.next_tick_cycles_ = regs.cycles + tick.int_cycles]
             ELSE tick
  /\ intr' = c.intr
  /\ regs' = x.regs
  /\ mem' = x.mem
  /\ exit_status' = x.exit
  /\ last_op' = [op |-> x.op, delivered |-> c.delivered, at |-> c.regs.PC]
  /\ guest' = [guest EXCEPT
                 !.irqs = IF c.delivered = "int" /\ c.regs.PC = 56 THEN @ + 1 ELSE @,
                 !.ei_done = @ \/ x.op = "ei"]
  /\ UNCHANGED <<conVars, fileVars, searchVars, bootVars, save_memory, program>>

\* 50,000 steps for a period of 10,000 cycles: 25 periods
IntRunCycles == 25 * TickCycles
NextInt == regs.cycles < IntRunCycles + 10 /\ main_loop
SpecInt == InitInt /\ [][NextInt]_vars

\* C11: with the tick armed, the interrupt is delivered (PC put on 0x0038)
\* only to a guest that has executed EI: the guest that runs EI and then
\* loops on NOP has it delivered within the first period, and at least four
\* times in 25 periods when its handler runs EI again; the guest that never
\* runs EI never has it delivered.
\* (Stated for the runs that start with no interrupt pending.)
C11_TickOnlyAfterEI ==
  guest.clean =>
    /\ guest.irqs > 0 => guest.ei_done
    /\ (guest.prog = "ei" /\ regs.cycles >= TickCycles + 10) => guest.irqs >= 1
    /\ (guest.prog = "ei" /\ guest.reenables /\ regs.cycles >= IntRunCycles) =>
         guest.irqs >= 4

\* ============================================== startup and the exit paths
\* do_save_memory: the host files after the call
do_save_memory(fs, m) ==
  IF save_memory.file = <<>> THEN fs
  ELSE LET start == save_memory.start
           end == IF save_memory.end # 0 THEN save_memory.end ELSE 65535
           size == IF end >= start THEN end - start + 1 ELSE 65536 - start
       IN Put(fs, save_memory.file, MemSeq(m, start, size))

BIOS_HOME == 24
BIOS_SELDSK == 27
BIOS_SETTRK == 30
BIOS_SETSEC == 33
BIOS_SETDMA == 36
BIOS_READ == 39
BIOS_WRITE == 42
BIOS_SECTRAN == 48
BiosDiskPrimitives == {BIOS_HOME, BIOS_SETTRK, BIOS_SETSEC, BIOS_SETDMA, BIOS_READ,
                       BIOS_WRITE, BIOS_SECTRAN}

\* bios_call for WBOOT, SELDSK and the disk primitives: the registers it
\* leaves, and the exit status when it ends the process
bios_call(r, offset, bios_disk_mode) ==
  CASE offset = BIOS_WBOOT -> [regs |-> r, exit |-> 0, op |-> "wboot"]
    [] offset = BIOS_SELDSK ->
         [regs |-> [r EXCEPT !.HL = IF r.BC % 256 = 0 THEN DPH_ADDR ELSE 0],
          exit |-> RUNNING, op |-> "seldsk"]
    [] offset \in BiosDiskPrimitives ->
         IF bios_disk_mode = 2
           THEN [regs |-> r, exit |-> 1, op |-> "bios_disk"]
         ELSE IF bios_disk_mode = 1
           THEN [regs |-> [r EXCEPT !.A = 0], exit |-> RUNNING, op |-> "bios_disk"]
           ELSE [regs |-> [r EXCEPT !.A = 0], exit |-> RUNNING, op |-> "bios_disk"]
    [] offset \in {12, 15, 18} ->     \* CONOUT, LIST, PUNCH: register C to the host
         [regs |-> r, exit |-> RUNNING, op |-> "bios_out"]
    [] offset = 21 ->     \* READER without an aux input file
         [regs |-> [r EXCEPT !.A = CPM_EOF], exit |-> RUNNING, op |-> "bios_reader"]
    [] offset = 45 ->     \* LISTST
         [regs |-> [r EXCEPT !.A = 255], exit |-> RUNNING, op |-> "bios_listst"]
    [] OTHER ->     \* default: of the switch: BOOT and the offsets past SECTRAN
         [regs |-> r, exit |-> RUNNING, op |-> "bios_none"]

\* handle_pc when PC is on a trap: 0x0000, the BDOS entry (functions 0 and 1)
\* or a BIOS entry; a call that returns ends with the simulated RET
\* bdos_set_random_record on the FCB at fcb_addr: r0..r2 = ex * 128 + cr
set_random_record(m, fcb_addr) ==
  LET ex == Fetch(m, fcb_addr + 12)
      cr == Fetch(m, fcb_addr + 32)
      record_num == (ex * 128) + cr
  IN StoreSeq(m, fcb_addr + 33,
              <<record_num % 256, (record_num \div 256) % 256, (record_num \div 65536) % 256>>)

\* bdos_call for the functions that touch nothing but A: 38 answers 0, 39 does
\* nothing, and the default: of the switch answers 0xFF
bdos_call_plain(r, func) ==
  CASE func = 38 -> [r EXCEPT !.A = 0]
    [] func = 39 -> r
    [] OTHER -> [r EXCEPT !.A = 255]

handle_pc ==
  LET pc == regs.PC
      func == regs.BC % 256
      ret(r) == LET p == pop_word(r, mem) IN [p.regs EXCEPT !.PC = p.word]
  IN
  /\ Running /\ main_pc = "run"
  /\ \/ /\ pc = 0
        /\ host_fs' = do_save_memory(host_fs, mem)
        /\ exit_status' = 0
        /\ last_op' = [op |-> "jmp0", offset |-> 0, a0 |-> regs.A]
        /\ UNCHANGED <<regs, mem, conVars>>
     \/ /\ pc = BDOS_BASE /\ func = 0
        /\ exit_status' = 0
        /\ last_op' = [op |-> "bdos0", offset |-> 0, a0 |-> regs.A]
        /\ UNCHANGED <<regs, mem, host_fs, conVars>>
     \/ /\ pc = BDOS_BASE /\ func \in {38, 39} \cup (41 .. 255)
        /\ regs' = ret(bdos_call_plain(regs, func))
        /\ last_op' = [op |-> "bdos_plain", offset |-> 0, a0 |-> regs.A]
        /\ UNCHANGED <<exit_status, mem, host_fs, conVars>>
     \/ /\ pc = BDOS_BASE /\ func = 36     \* Set Random Record: no return value
        /\ mem' = set_random_record(mem, regs.DE)
        /\ regs' = LET p == pop_word(regs, mem') IN [p.regs EXCEPT !.PC = p.word]
        /\ last_op' = [op |-> "bdos_set_random", offset |-> 0, a0 |-> regs.A]
        /\ UNCHANGED <<exit_status, host_fs, conVars>>
     \/ /\ pc = 65280 + 2     \* BIOS CONST: 0xFF when stdin has data, 0 when not
        /\ \E has_data \in BOOLEAN :
             regs' = ret([regs EXCEPT !.A = IF has_data THEN 255 ELSE 0])
        /\ last_op' = [op |-> "bios_const", offset |-> 6, a0 |-> regs.A]
        /\ UNCHANGED <<exit_status, mem, host_fs, conVars>>
     \/ /\ \/ pc = BDOS_BASE /\ func = 1
           \/ pc = 65280 + 3     \* BIOS CONIN
        /\ Len(stdin_log) < MaxInput
        /\ \E raw \in {CTRL_C, CR} :
             LET ch == IF raw = EOF THEN CPM_EOF ELSE raw IN
             /\ stdin_log' = Append(stdin_log, raw)
             /\ consecutive_ctrl_c' = check_ctrl_c_exit(ch)
             /\ IF check_ctrl_c_exit(ch) >= CTRL_C_EXIT_COUNT
                  THEN /\ host_fs' = do_save_memory(host_fs, mem)
                       /\ exit_status' = 0
                       /\ last_op' = [op |-> "ctrl_c", offset |-> 0, a0 |-> regs.A]
                       /\ UNCHANGED regs
                  ELSE /\ regs' = ret([regs EXCEPT !.A = (IF ch = LF THEN CR ELSE ch) % 128])
                       /\ last_op' = [op |-> IF pc = BDOS_BASE THEN "bdos1" ELSE "bios_conin",
                                       offset |-> (pc % 256) * 3, a0 |-> regs.A]
                       /\ UNCHANGED <<exit_status, host_fs>>
        /\ UNCHANGED <<mem, con_pc, count>>
     \/ /\ pc >= 65280 /\ pc < 65312 /\ pc \notin {65280 + 2, 65280 + 3}
        /\ LET b == bios_call(regs, (pc - 65280) * 3, config.bios_disk_mode) IN
             /\ exit_status' = b.exit
             /\ regs' = IF b.exit = RUNNING THEN ret(b.regs) ELSE b.regs
             /\ last_op' = [op |-> b.op, offset |-> (pc - 65280) * 3, a0 |-> regs.A]
        /\ UNCHANGED <<mem, host_fs, conVars>>
  /\ UNCHANGED <<fps, open_files, current_dma, current_drive, current_user, config,
                 file_mappings, file_map, searchVars, bootVars, machVars, guest>>

\* ---- guests that end the run, one per exit path
\* MVI A,0xFF; CALL the BIOS entry; JMP 0
DiskCall(offset) ==
  <<62, 255, 205, Lo(BIOS_BASE + offset), Hi(BIOS_BASE + offset), 195, 0, 0>>
ExitPrograms ==
  {<<195, 0, 0>>,                                     \* JMP 0
   <<14, 0, 205, 5, 0>>,                              \* MVI C,0; CALL 5
   <<195, Lo(BIOS_BASE + BIOS_WBOOT), Hi(BIOS_BASE + BIOS_WBOOT)>>,
   <<14, 1, 205, 5, 0, 195, 0, 1>>,                   \* console input in a loop
   <<118>>,                                           \* HLT
   <<221, 221, 221, 221, 221>>}                       \* five DD prefixes
    \cup {DiskCall(offset) : offset \in BiosDiskPrimitives}
\* configuration files: empty, without a program directive, with one
CfgFiles ==
  {<<>>, <<[key |-> "default_mode", value |-> <<116>>]>>,
   <<[key |-> "default_mode", value |-> <<116>>], [key |-> "program", value |-> ProgramCom]>>}
\* "m.bin"
SaveFile == <<109, 46, 98, 105, 110>>
\* --save-memory / --save-range: none, 0100-0103, FFFE-0 (to the top of memory)
SaveOptions == {[file |-> <<>>, start |-> 0, end |-> 0],
                [file |-> SaveFile, start |-> 256, end |-> 259],
                [file |-> SaveFile, start |-> 65534, end |-> 0]}
BiosDiskValues == {"unset", "ok", "fail", "error"}

InitExit ==
  /\ InitDevices
  /\ regs \in {[InitRegs EXCEPT !.cpu_mode = m] : m \in {MODE_Z80, MODE_8080}}
  /\ mem = <<>>
  /\ file_mappings = <<>> /\ file_map = <<>>
  /\ argv = <<>> /\ main_pc = "start"
  /\ intr = [int_pending |-> FALSE, nmi_pending |-> FALSE, int_vector |-> 255]
  /\ tick = [int_cycles |-> 0, int_rst |-> 7, next_tick_cycles_ |-> 0]
  /\ save_memory \in SaveOptions
  /\ \E a \in {ProgramCom, ProgramCfg}, d \in BiosDiskValues :
       program = [arg1 |-> a, path |-> <<>>, bios_disk |-> d]
  /\ \E coms \in {<<>>} \cup {[x \in {ProgramCom} |-> c] : c \in ExitPrograms},
        cfgs \in {<<>>} \cup {[x \in {ProgramCfg} |-> c] : c \in CfgFiles} :
       host_fs = [x \in (DOMAIN coms) \cup (DOMAIN cfgs) |->
                    IF x \in DOMAIN coms THEN coms[x] ELSE cfgs[x]]
  /\ guest = [prog |-> "exit"]

NextExit ==
  \/ main_config
  \/ setup_memory
  \/ setup_command_line
  \/ main_load
  \/ handle_pc
  \/ regs.cycles < ExitRunCycles /\ execute /\ UNCHANGED guest
SpecExit == InitExit /\ [][NextExit]_vars

\* the slice --save-range selects, as do_save_memory's caller expects it
SelectedSlice ==
  LET last == IF save_memory.end # 0 THEN save_memory.end ELSE 65535
  IN MemSeq(mem, save_memory.start, last - save_memory.start + 1)
GuestExits == {"jmp0", "bdos0", "wboot", "ctrl_c"}

\* C12: with --save-memory configured, when the emulator has terminated on a
\* guest-initiated exit path (PC = 0x0000, BDOS function 0, BIOS WBOOT, the
\* ^C threshold) the file holds the selected slice of guest memory.
C12_SavedOnEveryExit ==
  (~Running /\ last_op.op \in GuestExits /\ save_memory.file # <<>>) =>
    /\ FileExists(save_memory.file)
    /\ host_fs[save_memory.file] = SelectedSlice

CleanExits == {"jmp0", "bdos0", "ctrl_c"}
FatalExits == {"unimplemented", "hlt", "cannot_open", "no_program"}
FatalBiosDisk == last_op.op = "bios_disk" /\ config.bios_disk_mode = 2

\* C13: a clean guest exit (PC = 0x0000, BDOS 0, ^C threshold) ends the
\* process with status 0; an unknown opcode, HLT, a BIOS disk call under the
\* error policy, an unopenable .COM and a configuration file without a
\* program directive end it with status 1; no fatal condition ends with
\* status 0 and no clean exit with status 1.
C13_ExitStatus ==
  /\ last_op.op \in CleanExits => exit_status = 0
  /\ (last_op.op \in FatalExits \/ FatalBiosDisk) => exit_status = 1
  /\ exit_status = 0 => last_op.op \in CleanExits \cup {"wboot"}
  /\ exit_status = 1 =>
       (last_op.op \in FatalExits \cup {"cannot_open_config"} \/ FatalBiosDisk)

\* five DD prefixes in Z80 mode have reached the default case of the switch
C13_Witness ==
  /\ exit_status = 1 /\ last_op.op = "unimplemented" /\ regs.cpu_mode = MODE_Z80
  /\ regs.PC = 256 + 5

\* C14: a BIOS disk primitive returns to the guest with the success value in
\* A under policy ok, returns with a value in A that differs from the success
\* value under policy fail, and ends the emulator with status 1 under policy
\* error.
C14_BiosDiskPolicy ==
  last_op.op = "bios_disk" =>
    LET success == bios_call(regs, last_op.offset, 0).regs.A IN
    /\ last_op.offset \in BiosDiskPrimitives
    /\ config.bios_disk_mode = 0 => (Running /\ regs.A = success /\ regs.PC = 256 + 5)
    /\ config.bios_disk_mode = 1 => (Running /\ regs.A # success /\ regs.PC = 256 + 5)
    /\ config.bios_disk_mode = 2 => exit_status = 1

\* ======================================================= CPU: PUSH and POP
\* PUSH rp; POP rp for each pair, with its prefix for IX and IY
PushPopPrograms ==
  [BC |-> <<197, 193>>, DE |-> <<213, 209>>, HL |-> <<229, 225>>, AF |-> <<245, 241>>,
   IX |-> <<221, 229, 221, 225>>, IY |-> <<253, 229, 253, 225>>]
\* values of the pair: zero, all ones, and two mixed words
PairValues == {0, 65535, 4660, 43605}
\* stack pointers: the default, the wrap to 0xFFFE, a word split across
\* 0xFFFF / 0x0000, and mid-memory
StackPointers == {65520, 0, 1, 32768}

InitPushPop ==
  /\ InitDevices /\ InitMachine
  /\ host_fs = <<>> /\ file_mappings = <<>> /\ file_map = <<>>
  /\ argv = <<>> /\ main_pc = "run"
  /\ \E rp \in DOMAIN PushPopPrograms, v \in PairValues, sp \in StackPointers,
        m \in {MODE_Z80, MODE_8080} :
       LET others == [InitRegs EXCEPT !.A = 1, !.F = 70, !.BC = 515, !.DE = 1029,
                                      !.HL = 1543, !.IX = 2057, !.IY = 2571,
                                      !.SP = sp, !.cpu_mode = m]
           r0 == set_reg16(others, v, rp)
       IN /\ regs = IF rp = "AF" THEN [others EXCEPT !.A = v \div 256, !.F = v % 256] ELSE r0
          /\ mem = StoreSeq(<<>>, 256, PushPopPrograms[rp])
          /\ guest = [prog |-> "pushpop", rp |-> rp, r0 |-> regs,
                      end |-> 256 + Len(PushPopPrograms[rp])]

NextPushPop == regs.PC < guest.end /\ execute /\ UNCHANGED guest
SpecPushPop == InitPushPop /\ [][NextPushPop]_vars

\* C16: PUSH rp immediately followed by POP rp leaves rp, SP and every other
\* register as they were, for BC, DE, HL, AF, IX and IY and every value of
\* the pair and of SP; the flag byte is the same after normalization (and
\* bit for bit in Z80 mode).
C16_PushPopIdentity ==
  (guest.prog = "pushpop" /\ regs.PC = guest.end) =>
    LET r0 == guest.r0 IN
    /\ \A f \in {"A", "BC", "DE", "HL", "IX", "IY", "SP", "I", "IFF1", "IFF2", "IM"} :
         regs[f] = r0[f]
    /\ get_flags(regs) = get_flags(r0)
    /\ regs.cpu_mode = MODE_Z80 => regs.F = r0.F
    /\ get_reg16(regs, guest.rp) = get_reg16(r0, guest.rp)

\* PUSH AF; POP AF done in 8080 mode with all flag bits set and the stack
\* word split across 0xFFFF / 0x0000
C16_Witness ==
  /\ guest.prog = "pushpop" /\ regs.PC = guest.end /\ last_op.op = "pop"
  /\ guest.rp = "AF" /\ regs.cpu_mode = MODE_8080 /\ guest.r0.F = 255
  /\ regs.SP = 1 /\ Fetch(mem, 65535) = 215 /\ Fetch(mem, 0) = 255

\* ================================================= CPU: 8-bit arithmetic
\* ADD / ADC / SUB / SBC / CP with B, and ADI / ACI / SUI / SBI / CPI
AluOpcodes == {128, 136, 144, 152, 184} \cup AluImmOpcodes
\* operands on both sides of every nibble and sign boundary
AluOperands == {0, 1, 2, 7, 8, 15, 16, 17, 64, 85, 127, 128, 129, 170, 240, 254, 255}

InitAlu8 ==
  /\ InitDevices /\ InitMachine
  /\ host_fs = <<>> /\ file_mappings = <<>> /\ file_map = <<>>
  /\ argv = <<>> /\ main_pc = "run"
  /\ \E a \in 0..255, b \in AluOperands, cin \in {0, 1}, opcode \in AluOpcodes,
        m \in {MODE_Z80, MODE_8080} :
       LET imm == opcode \in AluImmOpcodes
       IN /\ regs = [InitRegs EXCEPT !.A = a, !.BC = 256 * b, !.cpu_mode = m,
                                     !.F = IF imm THEN 254 + cin ELSE cin]
          /\ mem = StoreSeq(<<>>, 256, IF imm THEN <<opcode, b>> ELSE <<opcode>>)
          /\ guest = [prog |-> "alu8", alu_op |-> (opcode \div 8) % 8, a |-> a, b |-> b,
                      cin |-> IF ((opcode \div 8) % 8) \in {1, 3} THEN cin ELSE 0,
                      end |-> IF imm THEN 258 ELSE 257]

NextAlu8 == regs.PC < guest.end /\ execute /\ UNCHANGED guest
SpecAlu8 == InitAlu8 /\ [][NextAlu8]_vars

\* the reference: carries and borrows stated arithmetically on the operands
Alu8Sub == guest.alu_op \in {2, 3, 7}
Alu8Result ==
  IF Alu8Sub THEN (guest.a - guest.b - guest.cin + 256) % 256
  ELSE (guest.a + guest.b + guest.cin) % 256
\* carry (borrow) out of the low n bits
Alu8Carry(n) ==
  IF Alu8Sub THEN (guest.a % (2 ^ n)) < (guest.b % (2 ^ n)) + guest.cin
  ELSE (guest.a % (2 ^ n)) + (guest.b % (2 ^ n)) + guest.cin >= 2 ^ n
Alu8Overflow == Alu8Carry(8) # Alu8Carry(7)
Alu8Parity == Cardinality({k \in 0..7 : BitOf(Alu8Result, k) = 1}) % 2 = 0
Alu8Done == guest.prog = "alu8" /\ regs.PC = guest.end
Alu8CommonFlags ==
  LET f == get_flags(regs) IN
  /\ HasBit(f, cpu_flags_CY) <=> Alu8Carry(8)
  /\ HasBit(f, cpu_flags_S) <=> Alu8Result >= 128
  /\ HasBit(f, cpu_flags_Z) <=> Alu8Result = 0
  /\ HasBit(f, cpu_flags_P) <=>
       IF regs.cpu_mode = MODE_Z80 THEN Alu8Overflow ELSE Alu8Parity

\* C17 as stated: after ADD, ADC, SUB, SBC and CP, for every A, operand and
\* carry-in, H is the carry or borrow out of bit 3, C the carry or borrow out
\* of bit 7, S and Z come from the 8-bit result, and P/V is the overflow in
\* Z80 mode and the even parity of the result in 8080 mode.
C17_Flags8 ==
  Alu8Done =>
    /\ Alu8CommonFlags
    /\ HasBit(get_flags(regs), cpu_flags_H) <=> Alu8Carry(4)

\* C17 amended: as stated, except that in 8080 mode the H left by SUB, SBC
\* and CP is the complement of the borrow out of bit 3 (the carry out of
\* bit 3 of A + ~operand + ~carry, as on the 8080).
C17_Flags8Amended ==
  Alu8Done =>
    /\ Alu8CommonFlags
    /\ HasBit(get_flags(regs), cpu_flags_H) <=>
         IF Alu8Sub /\ regs.cpu_mode = MODE_8080 THEN ~Alu8Carry(4) ELSE Alu8Carry(4)

\* SBC of 0x01 with carry set and A = 0x10 on the 8080: a borrow out of bit 3,
\* result 0x0E, H clear
C17_Witness ==
  /\ Alu8Done /\ last_op.op = "alu8" /\ regs.cpu_mode = MODE_8080
  /\ guest.alu_op = 3 /\ guest.a = 16 /\ guest.b = 1 /\ guest.cin = 1
  /\ regs.A = 14 /\ ~HasBit(get_flags(regs), cpu_flags_H)

\* ================================================ CPU: 16-bit addition
\* ADD HL,BC / DE / HL / SP, ADD IX,BC / IX, ADD IY,DE / IY
DadPrograms ==
  {<<9>>, <<25>>, <<41>>, <<57>>, <<221, 9>>, <<221, 41>>, <<253, 25>>, <<253, 41>>}
\* operands around bits 11, 13 and 15
DadOperands == {0, 1, 2048, 4095, 4096, 8192, 10240, 32767, 32768, 61441, 65535}
\* prior flag bytes: none, all, S Z P only, the others only, and two mixed
DadFlags == {0, 255, 196, 59, 129, 70}

InitDad ==
  /\ InitDevices /\ InitMachine
  /\ host_fs = <<>> /\ file_mappings = <<>> /\ file_map = <<>>
  /\ argv = <<>> /\ main_pc = "run"
  /\ \E v1 \in DadOperands, v2 \in DadOperands, f \in DadFlags, p \in DadPrograms,
        m \in {MODE_Z80, MODE_8080} :
       LET opcode == p[Len(p)]
           code == (opcode \div 16) % 4
           \* on the 8080 the prefix is a NOP of its own and HL is the target
           target == IF m = MODE_8080 \/ Len(p) = 1 THEN "HL"
                     ELSE IF p[1] = 221 THEN "IX" ELSE "IY"
       IN /\ regs = [InitRegs EXCEPT !.A = 1, !.F = f, !.BC = v1, !.DE = v1, !.SP = v1,
                                     !.HL = v2, !.IX = v2, !.IY = v2, !.cpu_mode = m]
          /\ mem = StoreSeq(<<>>, 256, p)
          /\ guest = [prog |-> "dad", target |-> target,
                      v1 |-> IF code = 2 THEN v2 ELSE v1, v2 |-> v2,
                      r0 |-> regs, end |-> 256 + Len(p)]

NextDad == regs.PC < guest.end /\ execute /\ UNCHANGED guest
SpecDad == InitDad /\ [][NextDad]_vars

DadDone == guest.prog = "dad" /\ regs.PC = guest.end
DadResult == (guest.v1 + guest.v2) % 65536
DadKeeps(mask) == HasBit(get_flags(regs), mask) <=> HasBit(get_flags(guest.r0), mask)
\* the flags the claim gives ADD HL,ss
DadZ80Flags ==
  LET f == get_flags(regs) IN
  /\ DadKeeps(cpu_flags_S) /\ DadKeeps(cpu_flags_Z) /\ DadKeeps(cpu_flags_P)
  /\ ~HasBit(f, cpu_flags_N)
  /\ HasBit(f, cpu_flags_H) <=> (guest.v1 % 4096) + (guest.v2 % 4096) >= 4096
  /\ HasBit(f, cpu_flags_CY) <=> guest.v1 + guest.v2 >= 65536
  /\ HasBit(f, cpu_flags_X) <=> (DadResult \div 2048) % 2 = 1
  /\ HasBit(f, cpu_flags_Y) <=> (DadResult \div 8192) % 2 = 1

\* C18 as stated: ADD HL,ss (and ADD IX,ss / ADD IY,ss) leaves S, Z and P/V
\* as they were, clears N, sets H to the carry out of bit 11 and C to the
\* carry out of bit 15, and X and Y to bits 11 and 13 of the result, for
\* every pair of operands and every prior flag byte.
C18_AddHl ==
  DadDone => DadZ80Flags

\* C18 amended: that holds in Z80 mode; in 8080 mode DAD sets C to the carry
\* out of bit 15 and leaves every other flag as get_flags read it before
\* (H unchanged, bit 1 set, bits 3 and 5 clear). The sum is stored in both.
C18_AddHlAmended ==
  DadDone =>
    /\ get_reg16(regs, guest.target) = DadResult
    /\ regs.cpu_mode = MODE_Z80 => DadZ80Flags
    /\ regs.cpu_mode = MODE_8080 =>
         /\ HasBit(get_flags(regs), cpu_flags_CY) <=> guest.v1 + guest.v2 >= 65536
         /\ \A mask \in {cpu_flags_S, cpu_flags_Z, cpu_flags_Y, cpu_flags_H, cpu_flags_X,
                         cpu_flags_P, cpu_flags_N} : DadKeeps(mask)

\* ADD IX,BC in Z80 mode: 0x0FFF + 0x0001 with S, Z and P/V set before, so H
\* is set, C clear and S, Z, P/V still set
C18_Witness ==
  /\ DadDone /\ last_op.op = "dad" /\ regs.cpu_mode = MODE_Z80
  /\ guest.target = "IX" /\ guest.v1 = 1 /\ guest.v2 = 4095 /\ guest.r0.F = 196
  /\ regs.IX = 4096 /\ regs.F = 196 + 16

\* ================================================== CPU: decimal adjust
\* packed BCD of a decimal number 0..99
Bcd(n) == 16 * (n \div 10) + (n % 10)
\* ADD B; DAA and SUB B; DAA
DaaPrograms == [add |-> <<128, 39>>, sub |-> <<144, 39>>]

InitDaa ==
  /\ InitDevices /\ InitMachine
  /\ host_fs = <<>> /\ file_mappings = <<>> /\ file_map = <<>>
  /\ argv = <<>> /\ main_pc = "run"
  /\ \E x \in 0..99, y \in 0..99, op \in DOMAIN DaaPrograms, m \in {MODE_Z80, MODE_8080} :
       /\ regs = [InitRegs EXCEPT !.A = Bcd(x), !.BC = 256 * Bcd(y), !.cpu_mode = m]
       /\ mem = StoreSeq(<<>>, 256, DaaPrograms[op])
       /\ guest = [prog |-> "daa", op |-> op, x |-> x, y |-> y, end |-> 258]

NextDaa == regs.PC < guest.end /\ execute /\ UNCHANGED guest
SpecDaa == InitDaa /\ [][NextDaa]_vars

DaaDone == guest.prog = "daa" /\ regs.PC = guest.end /\ last_op.op = "daa"
DaaAddRight ==
  /\ regs.A = Bcd((guest.x + guest.y) % 100)
  /\ HasBit(get_flags(regs), cpu_flags_CY) <=> guest.x + guest.y > 99
DaaSubRight ==
  /\ regs.A = Bcd((guest.x - guest.y + 100) % 100)
  /\ HasBit(get_flags(regs), cpu_flags_CY) <=> guest.x < guest.y

\* C19: for packed-BCD operands 00..99, ADD then DAA leaves the packed-BCD
\* sum modulo 100 in A with C set exactly when the sum exceeds 99, in Z80
\* mode and in 8080 mode; SUB then DAA leaves the packed-BCD difference
\* modulo 100 with C set exactly on a decimal borrow (Z80 mode).
C19_DaaBcd ==
  DaaDone =>
    /\ guest.op = "add" => DaaAddRight
    /\ (guest.op = "sub" /\ regs.cpu_mode = MODE_Z80) => DaaSubRight

\* ============================================ CPU: the 8080 flag byte
\* one-byte instructions that read or write the flags: NOP, EX AF,AF',
\* DAD B, DAA, ADD B, SUB B, CMP B, POP AF
FlagInstructions == {0, 8, 9, 39, 128, 144, 184, 241}
\* flag bytes with the three fixed bits wrong, right and mixed
FlagBytes == {0, 255, 40, 213}

InitFlags ==
  /\ InitDevices /\ InitMachine
  /\ host_fs = <<>> /\ file_mappings = <<>> /\ file_map = <<>>
  /\ argv = <<>> /\ main_pc = "run"
  /\ \E i1 \in FlagInstructions, i2 \in FlagInstructions, f \in FlagBytes,
        w \in FlagBytes, a \in {9, 153}, m \in {MODE_Z80, MODE_8080} :
       /\ regs = [InitRegs EXCEPT !.A = a, !.F = f, !.BC = 256 + 4095, !.HL = 61441,
                                  !.AF_ = 256 * a + w, !.cpu_mode = m]
       \* the stack holds two words whose low byte is w
       /\ mem = StoreSeq(StoreSeq(<<>>, 256, <<i1, i2, 245>>),
                         InitRegs.SP, <<w, 18, w, 52>>)
       /\ guest = [prog |-> "flags", end |-> 259]

NextFlags == regs.PC < guest.end /\ execute /\ UNCHANGED guest
SpecFlags == InitFlags /\ [][NextFlags]_vars

\* bits 3 and 5 are 0 and bit 1 is 1
Fixed8080(flags) ==
  /\ ~HasBit(flags, 8) /\ ~HasBit(flags, 32) /\ HasBit(flags, 2)
FlagsPushed == guest.prog = "flags" /\ regs.PC = guest.end /\ last_op.op = "push"

\* C15: in 8080 mode, after any sequence of executed instructions (POP AF of
\* an arbitrary stack word included), the flag byte get_flags reads, and the
\* one PUSH AF stores, has bits 3 and 5 equal to 0 and bit 1 equal to 1.
C15_FlagByte8080 ==
  (guest.prog = "flags" /\ regs.cpu_mode = MODE_8080) =>
    /\ Fixed8080(get_flags(regs))
    /\ FlagsPushed => Fixed8080(Fetch(mem, regs.SP))

\* POP AF of a word whose low byte is 0xFF, then DAD B, then PUSH AF, in 8080
\* mode: the byte on the stack is 0xD7
C15_Witness ==
  /\ FlagsPushed /\ regs.cpu_mode = MODE_8080
  /\ Fetch(mem, 256) = 241 /\ Fetch(mem, 257) = 9
  /\ Fetch(mem, regs.SP) = 215 /\ Fetch(mem, Word(regs.SP + 1)) = 18

\* ========================================= files: Write Sequential auto-open
\* C20: Write Sequential on an FCB address with no open-file entry creates
\* the host file when it does not exist, registers an entry for the FCB and
\* writes the record, returning A = 0 (the host directory of this model is
\* writable, so a file can always be created).
C20_WriteAutoCreate ==
  (guest.prog = "files" /\ last_op.op = "write_seq" /\ ~last_op.had) =>
    LET r == find_unix_file_ex(fcb_to_filename(mem, last_op.fcb)) IN
    /\ regs.A = 0
    /\ HasEntry(last_op.fcb)
    /\ r.path # <<>> /\ FileExists(r.path)

\* ==================================================== files: random access
\* the record number in r0..r2 of an FCB (bytes 33..35, r0 low)
random_record(m, fcb_addr) ==
  Fetch(m, fcb_addr + 33) + 256 * Fetch(m, fcb_addr + 34) + 65536 * Fetch(m, fcb_addr + 35)

read_random_effect_noseek(fcb_addr) ==
  IF ~HasEntry(fcb_addr) THEN [A |-> 255, fps |-> fps, mem |-> mem]
  ELSE LET of == open_files[fcb_addr]
           data == host_fs[fps[of.fp].path]
           position == fps[of.fp].pos
           nread == IF position >= Len(data) THEN 0 ELSE Min(DMA_SIZE, Len(data) - position)
       IN [A |-> IF nread = 0 THEN 1 ELSE 0,
           fps |-> [fps EXCEPT ![of.fp].pos = position + nread],
           mem |-> IF nread = 0 THEN mem
                   ELSE StoreSeq(mem, current_dma,
                                 pad_to_128(SubSeq(data, position + 1, position + nread)))]
read_random_effect_eof(fcb_addr) ==
  IF ~HasEntry(fcb_addr) THEN [A |-> 1, fps |-> fps, mem |-> mem]
  ELSE LET of == open_files[fcb_addr]
           data == host_fs[fps[of.fp].path]
           position == random_record(mem, fcb_addr) * DMA_SIZE
           nread == IF position >= Len(data) THEN 0 ELSE Min(DMA_SIZE, Len(data) - position)
       IN [A |-> IF nread = 0 THEN 1 ELSE 0,
           fps |-> [fps EXCEPT ![of.fp].pos = position + nread],
           mem |-> IF nread = 0 THEN mem
                   ELSE StoreSeq(mem, current_dma,
                                 pad_to_128(SubSeq(data, position + 1, position + nread)))]
\* bdos_read_random as a function of the state: no entry -> 0xFF and nothing
\* else; else fseek to record * 128, fread into the DMA buffer, ^Z padding
read_random_effect(fcb_addr) ==
  IF ~HasEntry(fcb_addr) THEN [A |-> 255, fps |-> fps, mem |-> mem]
  ELSE LET of == open_files[fcb_addr]
           data == host_fs[fps[of.fp].path]
           position == random_record(mem, fcb_addr) * DMA_SIZE
           nread == IF position >= Len(data) THEN 0 ELSE Min(DMA_SIZE, Len(data) - position)
       IN [A |-> IF nread = 0 THEN 1 ELSE 0,
           fps |-> [fps EXCEPT ![of.fp].pos = position + nread],
           mem |-> IF nread = 0 THEN mem
                   ELSE StoreSeq(mem, current_dma,
                                 pad_to_128(SubSeq(data, position + 1, position + nread)))]

bdos_read_random(fcb_addr) ==
  LET e == read_random_effect(fcb_addr) IN
  /\ Running
  /\ last_op' = [op |-> "read_random", fcb |-> fcb_addr, had |-> HasEntry(fcb_addr),
                 rec |-> random_record(mem, fcb_addr)]
  /\ regs' = [regs EXCEPT !.DE = fcb_addr, !.A = e.A]
  /\ fps' = e.fps /\ mem' = e.mem
  /\ UNCHANGED <<open_files, host_fs, current_dma, current_drive, current_user, config,
                 file_mappings, file_map, exit_status>>

\* bdos_write_random: no entry -> 0xFF and nothing else; else fseek to
\* record * 128 and fwrite the 128 bytes at the DMA address
bdos_write_random(fcb_addr) ==
  /\ Running
  /\ last_op' = [op |-> "write_random", fcb |-> fcb_addr, had |-> HasEntry(fcb_addr),
                 rec |-> random_record(mem, fcb_addr)]
  /\ IF ~HasEntry(fcb_addr)
       THEN /\ regs' = [regs EXCEPT !.DE = fcb_addr, !.A = 255]
            /\ UNCHANGED <<fps, host_fs>>
       ELSE LET of == open_files[fcb_addr]
                path == fps[of.fp].path
                position == random_record(mem, fcb_addr) * DMA_SIZE
            IN /\ host_fs' = [host_fs EXCEPT
                                ![path] = WriteAt(@, position, MemSeq(mem, current_dma, DMA_SIZE))]
               /\ fps' = [fps EXCEPT ![of.fp].pos = position + DMA_SIZE]
               /\ regs' = [regs EXCEPT !.DE = fcb_addr, !.A = 0]
  /\ UNCHANGED <<mem, open_files, current_dma, current_drive, current_user, config,
                 file_mappings, file_map, exit_status>>

\* the guest works on B.DAT (binary: one record of 'x' and three bytes 'y')
\* through the default FCB: Open and Close once, Read Sequential (one after
\* each store), Read Random and Write Random, between which it stores a
\* record number, cr and the extent byte in the FCB and fills the DMA buffer
RandomFile == Fill(DMA_SIZE, 120) \o <<121, 121, 121>>
InitRandom ==
  /\ InitEmulator
  /\ file_mappings = <<>> /\ file_map = <<>>
  /\ argv = <<>> /\ main_pc = "run"
  /\ guest = [prog |-> "random", written |-> <<>>]
  /\ host_fs = Put(<<>>, HostB, RandomFile)
  /\ mem = StoreSeq(<<>>, DEFAULT_FCB + 1, GuestFcb2Name)

guest_store_fcb ==
  /\ Running
  /\ \E r \in {0, 1, MaxRec}, p \in {<<0, 0>>, <<7, 1>>} :
       mem' = Store(Store(Store(mem, DEFAULT_FCB + 33, r), DEFAULT_FCB + 32, p[1]),
                    DEFAULT_FCB + 12, p[2])
  /\ last_op' = [op |-> "store_fcb"]
  /\ UNCHANGED <<regs, exit_status, guest, conVars, fileVars, searchVars, bootVars,
                 machVars>>
guest_fill_dma ==
  /\ Running
  /\ mem' = StoreSeq(mem, current_dma, Fill(DMA_SIZE, 65))
  /\ last_op' = [op |-> "fill_dma"]
  /\ UNCHANGED <<regs, exit_status, guest, conVars, fileVars, searchVars, bootVars,
                 machVars>>
\* Write Random, remembering what was written at which record
guest_write_random ==
  /\ bdos_write_random(DEFAULT_FCB)
  /\ guest' = IF HasEntry(DEFAULT_FCB)
                THEN [guest EXCEPT !.written = Put(@, random_record(mem, DEFAULT_FCB),
                                                   MemSeq(mem, current_dma, DMA_SIZE))]
                ELSE guest
  /\ UNCHANGED <<conVars, searchVars, bootVars, machVars>>

NextRandom ==
  \/ fps = <<>> /\ bdos_open_file(DEFAULT_FCB) /\ UNCHANGED nonFileVars
  \/ bdos_close_file(DEFAULT_FCB) /\ UNCHANGED nonFileVars
  \/ Fetch(mem, DEFAULT_FCB + 32) \in {0, 7}
       /\ bdos_read_sequential(DEFAULT_FCB) /\ UNCHANGED nonFileVars
  \/ bdos_read_random(DEFAULT_FCB) /\ UNCHANGED nonFileVars
  \/ guest_write_random
  \/ guest_store_fcb
  \/ guest_fill_dma
SpecRandom == InitRandom /\ [][NextRandom]_vars

\* C21: Read Sequential, Read Random and Write Random on an FCB address that
\* has no open-file entry return A = 0xFF and leave guest memory (the DMA
\* buffer and every byte of the FCB, cr included), the open-file table, the
\* host handles and the host files unchanged.
C21_NoEntryFails ==
  [][(last_op'.op \in {"read_seq", "read_random", "write_random"} /\ ~last_op'.had) =>
       /\ regs'.A = 255
       /\ mem' = mem /\ open_files' = open_files /\ fps' = fps /\ host_fs' = host_fs]_vars

\* Write Random refused on an FCB that was opened and closed again
C21_Witness ==
  /\ guest.prog = "random" /\ last_op.op = "write_random" /\ ~last_op.had
  /\ regs.A = 255 /\ Len(fps) = 1 /\ ~fps[1].open /\ host_fs[HostB] = RandomFile

\* C24: for an open FCB, Write Random of the DMA buffer at record r, followed
\* after any interleaving of sequential reads and random operations that do
\* not write record r by Read Random at r, returns A = 0 with the DMA buffer
\* equal to the 128 bytes written; Write Random puts them at host offset
\* r * 128, whatever cr, the extent byte and the host position are.
C24_RandomRoundTrip ==
  (guest.prog = "random" /\ last_op.op \in {"read_random", "write_random"} /\ last_op.had
     /\ last_op.rec \in DOMAIN guest.written)
  => /\ regs.A = 0
     /\ MemSeq(mem, current_dma, DMA_SIZE) = guest.written[last_op.rec]
     /\ SubSeq(host_fs[HostB], last_op.rec * DMA_SIZE + 1, (last_op.rec + 1) * DMA_SIZE)
          = guest.written[last_op.rec]

\* record 2 read back as written, past a hole, after a sequential read moved
\* the host position and with cr and the extent byte set by the guest
C24_Witness ==
  /\ guest.prog = "random" /\ last_op.op = "read_random" /\ last_op.had
  /\ last_op.rec = 2 /\ 2 \in DOMAIN guest.written /\ 1 \notin DOMAIN guest.written
  /\ Fetch(mem, DEFAULT_FCB + 32) = 8 /\ Fetch(mem, DEFAULT_FCB + 12) = 1
  /\ regs.A = 0 /\ MemSeq(mem, current_dma, DMA_SIZE) = Fill(DMA_SIZE, 65)

\* ------------------------------------------------ BDOS and BIOS trap returns
\* guest programs that reach a trap with a chosen stack: LXI B,w; LXI D,d;
\* LXI SP,s; PUSH B; MVI C,f; JMP t -- the word w is on top of the stack when
\* PC gets to t
TrapProgram(w, d, s, f, t) ==
  <<1, Lo(w), Hi(w), 17, Lo(d), Hi(d), 49, Lo(s), Hi(s), 197, 14, f, JMP, Lo(t), Hi(t)>>
\* return words and stack pointers; a stack pointer of 1 makes the PUSH and the
\* POP wrap around the top of memory
TrapWords == {256, 4660, 65535}
TrapStacks == {1, 32768, 65520}
\* BDOS function numbers: 38 and 39 are the last plain cases of the switch,
\* 41 and up fall to default:
TrapFuncs == {36, 38, 39, 41, 128, 255}
\* FCB addresses for Set Random Record: the default FCB, and the one whose
\* r0 and r1 are the two bytes on top of a stack below s
TrapFcbs(s, f) ==
  IF f = 36 /\ s >= 35 THEN {DEFAULT_FCB, s - 35} ELSE {DEFAULT_FCB}
\* trap targets: the BDOS trap, the 17 jump-table entries of the BIOS, and two
\* magic addresses no jump-table entry leads to
TrapTargets ==
  {BDOS_BASE} \cup {BIOS_BASE + 3 * k : k \in 0 .. 16} \cup {65280 + 17, 65280 + 31}
TrapOps ==
  {"jmp0", "bdos0", "bdos1", "ctrl_c", "bdos_plain", "bdos_set_random", "bios_const", "bios_conin", "wboot",
   "seldsk", "bios_disk", "bios_out", "bios_reader", "bios_listst", "bios_none"}

InitTrap ==
  /\ InitDevices
  /\ regs \in {[InitRegs EXCEPT !.cpu_mode = m] : m \in {MODE_Z80, MODE_8080}}
  /\ mem = <<>>
  /\ file_mappings = <<>> /\ file_map = <<>>
  /\ argv = <<>> /\ main_pc = "start"
  /\ intr = [int_pending |-> FALSE, nmi_pending |-> FALSE, int_vector |-> 255]
  /\ tick = [int_cycles |-> 0, int_rst |-> 7, next_tick_cycles_ |-> 0]
  /\ save_memory = [file |-> <<>>, start |-> 0, end |-> 0]
  /\ \E d \in BiosDiskValues : program = [arg1 |-> ProgramCom, path |-> <<>>, bios_disk |-> d]
  /\ \E w \in TrapWords, s \in TrapStacks, t \in TrapTargets :
       \E f \in IF t = BDOS_BASE THEN TrapFuncs ELSE {0} :
         \E d \in TrapFcbs(s, f) :
           /\ host_fs = [x \in {ProgramCom} |-> TrapProgram(w, d, s, f, t)]
           /\ guest = [prog |-> "trap", w |-> w, d |-> d, s |-> s, f |-> f, t |-> t]

\* the step loop of main up to the return of the first trap
NextTrap ==
  \/ main_config
  \/ setup_memory
  \/ setup_command_line
  \/ main_load
  \/ last_op.op \notin TrapOps /\ handle_pc
  \/ last_op.op \notin TrapOps /\ execute /\ UNCHANGED guest
SpecTrap == InitTrap /\ [][NextTrap]_vars

IsTrap(pc) == pc = BDOS_BASE \/ (pc >= 65280 /\ pc < 65312)

\* C22: a step taken with PC on the BDOS trap or on a BIOS trap address that
\* does not end the emulator executes no guest instruction (no cycles are
\* counted), leaves PC at the little-endian word that was at SP on entry and
\* SP two higher; the BDOS functions outside the switch answer A = 0xFF; and
\* a call of jump-table entry k reaches the BIOS function with offset 3k
C22_TrapReturns ==
  [][(Running /\ main_pc = "run" /\ IsTrap(regs.PC) /\ exit_status' = RUNNING) =>
       /\ regs'.cycles = regs.cycles
       /\ regs'.PC = Fetch(mem, regs.SP) + 256 * Fetch(mem, Word(regs.SP + 1))
       /\ regs'.SP = Word(regs.SP + 2)
       /\ (regs.PC = BDOS_BASE /\ guest.f >= 41) => regs'.A = 255
       /\ \A k \in 0 .. 16 : guest.t = BIOS_BASE + 3 * k => last_op'.offset = 3 * k]_vars
\* C22 amended: the same, with PC left at the little-endian word that is at
\* SP when the function has finished: the word that was there on entry
\* whenever the function did not itself store into those two bytes
C22_TrapReturnsAmended ==
  [][(Running /\ main_pc = "run" /\ IsTrap(regs.PC) /\ exit_status' = RUNNING) =>
       /\ regs'.cycles = regs.cycles
       /\ regs'.PC = Fetch(mem', regs.SP) + 256 * Fetch(mem', Word(regs.SP + 1))
       /\ (\A a \in {regs.SP, Word(regs.SP + 1)} : Fetch(mem', a) = Fetch(mem, a)) =>
            regs'.PC = guest.w
       /\ regs'.SP = Word(regs.SP + 2)
       /\ regs'.SP = guest.s
       /\ (regs.PC = BDOS_BASE /\ guest.f >= 41) => regs'.A = 255
       /\ \A k \in 0 .. 16 : guest.t = BIOS_BASE + 3 * k => last_op'.offset = 3 * k]_vars
\* Set Random Record has stored record number 0 over the return address 0x1234
\* that was on top of the stack, and has returned to 0
C22_Witness ==
  /\ last_op.op = "bdos_set_random" /\ guest.d = guest.s - 35 /\ guest.w = 4660
  /\ regs.PC = 0 /\ regs.SP = guest.s /\ Running

\* ------------------------------------------------------ BDOS 9, Print String
\* bdos_write_string, entry: addr = DE; the local addr is kept in last_op
bdos_write_string ==
  /\ Running /\ con_pc = "guest"
  /\ con_pc' = "ws"
  /\ last_op' = [op |-> "ws_begin", addr |-> regs.DE]
  /\ UNCHANGED <<regs, mem, exit_status, consecutive_ctrl_c, stdin_log, count>>

\* one test of while (mem[addr] != '$'): putchar and addr++ (a 16-bit
\* increment), or the end of the loop and the return to the guest
write_string_step ==
  /\ Running /\ con_pc = "ws"
  /\ IF Fetch(mem, last_op.addr) # 36
       THEN /\ last_op' = [op |-> "ws_putchar", addr |-> Word(last_op.addr + 1)]
            /\ UNCHANGED con_pc
       ELSE /\ last_op' = [op |-> "ws_end", addr |-> last_op.addr]
            /\ con_pc' = "guest"
  /\ UNCHANGED <<regs, mem, exit_status, consecutive_ctrl_c, stdin_log, count>>

\* guest memories: all zero; "HI$" at 0x0200; a '$' at address 0 only, which a
\* string starting near the top of memory reaches by wrapping
StringMems == {<<>>, StoreSeq(<<>>, 512, <<72, 73, 36>>), Store(<<>>, 0, 36)}
StringAddrs == {512, 65534}

InitString ==
  /\ InitDevices /\ InitMachine
  /\ \E de \in StringAddrs : regs = [InitRegs EXCEPT !.DE = de]
  /\ mem \in StringMems
  /\ host_fs = <<>> /\ file_mappings = <<>> /\ file_map = <<>>
  /\ argv = <<>> /\ main_pc = "run" /\ guest = [prog |-> "string"]

NextString ==
  \/ last_op.op = "init" /\ bdos_write_string /\ UNCHANGED nonConVars
  \/ write_string_step /\ UNCHANGED nonConVars
\* the host runs the loop of bdos_write_string as long as it has not ended
SpecString ==
  InitString /\ [][NextString]_vars /\ WF_vars(write_string_step /\ UNCHANGED nonConVars)

\* C23: a Print String call that has started returns to the guest, whatever
\* DE and the content of memory are
C23_WriteStringReturns == (con_pc = "ws") ~> (con_pc = "guest")

\* ------------------------------------------------- runs of DD / FD prefixes
MaxPrefix == 5
\* every run of 1 .. MaxPrefix prefixes, each DD or FD
PrefixRuns == UNION {[1 .. k -> {221, 253}] : k \in 1 .. MaxPrefix}
\* the instruction after the run: LXI H,0x1234 or PUSH H
PrefixedCode == {<<33, 52, 18>>, <<229>>}

InitPrefix ==
  /\ InitDevices /\ InitMachine
  /\ regs = [InitRegs EXCEPT !.HL = 13107, !.IX = 4369, !.IY = 8738, !.SP = 32768]
  /\ host_fs = <<>> /\ file_mappings = <<>> /\ file_map = <<>>
  /\ argv = <<>> /\ main_pc = "run"
  /\ \E run \in PrefixRuns, code \in PrefixedCode :
       /\ mem = StoreSeq(<<>>, 256, run \o code)
       /\ guest = [prog |-> "prefix", run |-> run, code |-> code]

NextPrefix == regs.PC = 256 /\ execute /\ UNCHANGED guest
SpecPrefix == InitPrefix /\ [][NextPrefix]_vars

\* C25: in Z80 mode the instruction after a run of DD and FD prefixes of any
\* length is executed with the index register of the last prefix: the
\* emulator goes on running, PC is past the run and the instruction, LXI
\* loads that register and no other, PUSH pushes that register
C25_LastPrefixWins ==
  last_op.op # "init" =>
    LET k == Len(guest.run)
        last == IF guest.run[k] = 221 THEN "IX" ELSE "IY"
    IN /\ Running
       /\ regs.PC = 256 + k + Len(guest.code)
       /\ regs.HL = 13107
       /\ IF guest.code[1] = 33
            THEN /\ get_reg16(regs, last) = 4660
                 /\ {regs.IX, regs.IY} \in {{4660, 4369}, {4660, 8738}}
                 /\ regs.SP = 32768
            ELSE /\ regs.SP = 32766
                 /\ read_word(mem, 32766) = (IF last = "IX" THEN 4369 ELSE 8738)
                 /\ regs.IX = 4369 /\ regs.IY = 8738

\* --------------------------------------------------- ED and CB on the 8080
\* register files that differ in every register and flag
Nop2Regs ==
  {[InitRegs EXCEPT !.cpu_mode = MODE_8080, !.A = a, !.F = f, !.BC = 258, !.DE = 772,
                    !.HL = 1286, !.SP = 65520, !.IX = 4369, !.IY = 8738, !.AF_ = 43981,
                    !.PC = pc] :
     a \in {0, 255}, f \in {0, 215, 255}, pc \in {256, 65534, 65535}}

InitNop2 ==
  /\ InitDevices /\ InitMachine
  /\ regs \in Nop2Regs
  /\ host_fs = <<>> /\ file_mappings = <<>> /\ file_map = <<>>
  /\ argv = <<>> /\ main_pc = "run"
  /\ \E first \in {237, 203}, second \in 0 .. 255 :
       mem = Store(Store(<<>>, regs.PC, first), Word(regs.PC + 1), second)
  /\ guest = [prog |-> "nop2", regs |-> regs, mem |-> mem]

NextNop2 == last_op.op = "init" /\ execute /\ UNCHANGED guest
SpecNop2 == InitNop2 /\ [][NextNop2]_vars

\* C26: in 8080 mode the instruction at a byte ED or CB moves PC on by 2,
\* counts 5 cycles and changes no other register, no flag and no memory,
\* whatever the second byte is
C26_TwoByteNop ==
  last_op.op # "init" =>
    /\ Running
    /\ regs = [guest.regs EXCEPT !.PC = Word(@ + 2), !.cycles = @ + 5]
    /\ mem = guest.mem
\* CB FF with PC = 0xFFFF has been executed: PC wrapped to 1
C26_Witness ==
  /\ last_op.op = "nop2" /\ guest.regs.PC = 65535 /\ regs.PC = 1
  /\ Fetch(mem, 65535) = 203 /\ Fetch(mem, 0) = 255 /\ regs.F = 215

\* ------------------------------------------- ^Z in a host file, sequential
MaxReads == 4
\* host contents with a ^Z: two bytes in, after a line end, at the start of
\* the second record, one byte into it, as the only byte; each with bytes
\* after the ^Z
EofTexts ==
  {<<97, 98, CPM_EOF, 99>>,
   <<97, LF, CPM_EOF, 99, 99>>,
   Fill(DMA_SIZE, 97) \o <<CPM_EOF, 99>>,
   Fill(DMA_SIZE, 97) \o <<98, CPM_EOF>> \o Fill(DMA_SIZE, 99),
   <<CPM_EOF>> \o Fill(DMA_SIZE, 99)}

\* a.txt is opened in TEXT mode, b.dat in BINARY mode; with and without the
\* end-of-line conversion
InitEof ==
  /\ InitEmulator
  /\ file_mappings = <<>> /\ file_map = <<>>
  /\ argv = <<>> /\ main_pc = "run"
  /\ guest = [prog |-> "eof", reads |-> 0, late |-> 0, opens |-> 0]
  /\ \E text \in EofTexts : host_fs = Put(Put(<<>>, HostA, text), HostB, text)
  /\ \E n1 \in {GuestFcb2Name, <<65, 32, 32, 32, 32, 32, 32, 32, 84, 88, 84>>} :
       mem = StoreSeq(<<>>, DEFAULT_FCB + 1, n1)

\* a configuration file with eol_convert = false, read before the guest starts
guest_eof_config ==
  /\ last_op.op = "init"
  /\ config' = [config EXCEPT !.default_eol_convert = FALSE]
  /\ last_op' = [op |-> "no_eol"]
  /\ UNCHANGED <<regs, mem, exit_status, host_fs, fps, open_files, current_dma,
                 current_drive, current_user, file_mappings, file_map, guest,
                 conVars, searchVars, bootVars, machVars>>

guest_eof_open ==
  /\ ~HasEntry(DEFAULT_FCB) /\ guest.opens < 2
  /\ bdos_open_file(DEFAULT_FCB)
  /\ guest' = [guest EXCEPT !.opens = @ + 1, !.reads = 0, !.late = 0]
  /\ UNCHANGED <<conVars, searchVars, bootVars, machVars>>

\* the position of the open handle is past the first ^Z of its file
MetEof(fcb_addr) ==
  LET f == fps[open_files[fcb_addr].fp]
      z == FindChar(host_fs[f.path], CPM_EOF)
  IN z # 0 /\ f.pos >= z

guest_eof_read ==
  /\ HasEntry(DEFAULT_FCB) /\ guest.reads < MaxReads
  /\ bdos_read_sequential(DEFAULT_FCB)
  /\ guest' = [guest EXCEPT !.reads = @ + 1,
                            !.late = IF MetEof(DEFAULT_FCB) THEN @ + 1 ELSE @]
  /\ UNCHANGED <<conVars, searchVars, bootVars, machVars>>

NextEof ==
  \/ guest_eof_config
  \/ guest_eof_open
  \/ guest_eof_read
  \/ HasEntry(DEFAULT_FCB) /\ bdos_close_file(DEFAULT_FCB) /\ UNCHANGED nonFileVars
SpecEof == InitEof /\ [][NextEof]_vars

\* C27: a Read Sequential on a TEXT-mode entry whose handle is past the first
\* ^Z of its file returns A = 1 and leaves the DMA buffer alone, and the entry
\* stays in that condition; a BINARY-mode entry never has the marker set and
\* its Read Sequential delivers the next host bytes, ^Z included, as data
C27_EofSticky ==
  [][(HasEntry(DEFAULT_FCB) /\ last_op'.op = "read_seq") =>
       LET of == open_files[DEFAULT_FCB]
           f == fps[of.fp]
           data == host_fs[f.path]
       IN IF of.mode = MODE_TEXT
            THEN MetEof(DEFAULT_FCB) =>
                   /\ regs'.A = 1
                   /\ MemSeq(mem', current_dma, DMA_SIZE) = MemSeq(mem, current_dma, DMA_SIZE)
                   /\ HasEntry(DEFAULT_FCB)' /\ MetEof(DEFAULT_FCB)'
            ELSE /\ ~of.eof_seen /\ ~open_files'[DEFAULT_FCB].eof_seen
                 /\ f.pos < Len(data) =>
                      /\ regs'.A = 0
                      /\ MemSeq(mem', current_dma, DMA_SIZE) =
                           pad_to_128(SubSeq(data, f.pos + 1, Min(f.pos + DMA_SIZE, Len(data))))]_vars
\* two reads after the ^Z of a text file were refused although the file has
\* a whole record behind the ^Z
C27_Witness ==
  /\ last_op.op = "read_seq" /\ guest.late = 2 /\ regs.A = 1
  /\ HasEntry(DEFAULT_FCB) /\ open_files[DEFAULT_FCB].mode = MODE_TEXT
  /\ Len(host_fs[HostA]) > 2 * DMA_SIZE
  /\ MemSeq(mem, current_dma, DMA_SIZE) = Fill(DMA_SIZE, 97)

\* C28: the Read Sequential call on a TEXT-mode entry during which the first
\* ^Z of the host file is met, with host bytes before the ^Z not yet
\* delivered, returns A = 0 and leaves those bytes (line ends converted when
\* the conversion is on) in the DMA buffer, padded with ^Z to 128 bytes
C28_BytesBeforeEof ==
  [][(/\ HasEntry(DEFAULT_FCB) /\ last_op'.op = "read_seq"
      /\ open_files[DEFAULT_FCB].mode = MODE_TEXT
      /\ ~MetEof(DEFAULT_FCB) /\ MetEof(DEFAULT_FCB)'
      /\ fps[open_files[DEFAULT_FCB].fp].pos + 1 <
           FindChar(host_fs[fps[open_files[DEFAULT_FCB].fp].path], CPM_EOF)) =>
       LET of == open_files[DEFAULT_FCB]
           f == fps[of.fp]
           data == host_fs[f.path]
           before == SubSeq(data, f.pos + 1, FindChar(data, CPM_EOF) - 1)
       IN /\ regs'.A = 0
          /\ MemSeq(mem', current_dma, DMA_SIZE) =
               pad_to_128(IF of.eol_convert THEN lf_to_crlf(before) ELSE before)]_vars

\* --------------------------------------- BDOS calls and the end of memory
\* the guest memory array: bytes 0 .. MEMORY_SIZE - 1. The BDOS functions
\* index it through the raw pointer get_mem() returns, with int arithmetic
MEMORY_SIZE == 65536

\* BDOS 26
bdos_get_set_dma(de) ==
  /\ Running
  /\ regs' = [regs EXCEPT !.DE = de]
  /\ current_dma' = de
  /\ last_op' = [op |-> "set_dma", dma |-> de]
  /\ UNCHANGED <<mem, exit_status, host_fs, fps, open_files, current_drive, current_user,
                 config, file_mappings, file_map>>

\* DMA addresses: the default, the last one whose record fits, one whose
\* record runs 112 bytes past 0xFFFF
DmaAddrs == {DEFAULT_DMA, 65408, 65520}
\* FCB addresses: the default, and one whose cr byte would be at 0x10000
HighFcbs == {DEFAULT_FCB, 65504}

InitDma ==
  /\ InitEmulator
  /\ file_mappings = <<>> /\ file_map = <<>>
  /\ argv = <<>> /\ main_pc = "run"
  /\ host_fs = Put(<<>>, HostB, RandomFile)
  /\ mem = StoreSeq(StoreSeq(<<>>, DEFAULT_FCB + 1, GuestFcb2Name), 65504 + 1, GuestFcb2Name)
  /\ \E f \in HighFcbs : guest = [prog |-> "dma", fcb |-> f]

NextDma ==
  \/ \E de \in DmaAddrs : de # current_dma /\ bdos_get_set_dma(de) /\ UNCHANGED nonFileVars
  \/ fps = <<>> /\ bdos_open_file(guest.fcb) /\ UNCHANGED nonFileVars
  \/ Fetch(mem, guest.fcb + 32) < 2 /\ bdos_read_sequential(guest.fcb) /\ UNCHANGED nonFileVars
  \/ last_op.op # "read_random" /\ bdos_read_random(guest.fcb) /\ UNCHANGED nonFileVars
SpecDma == InitDma /\ [][NextDma]_vars

\* C29: whatever DMA address BDOS 26 has set and whatever FCB address DE
\* holds, every byte of guest memory a BDOS call stores lies inside the
\* array of MEMORY_SIZE bytes
C29_InsideMemory == \A a \in DOMAIN mem : a >= 0 /\ a < MEMORY_SIZE

\* ------------------------------------- Set Random Record after k reads
\* records of the host file the guest reads through
MaxRecords == 257

\* BDOS 36
bdos_set_random_record(fcb_addr) ==
  /\ Running
  /\ mem' = set_random_record(mem, fcb_addr)
  /\ regs' = [regs EXCEPT !.DE = fcb_addr]
  /\ last_op' = [op |-> "set_random", fcb |-> fcb_addr]
  /\ UNCHANGED <<exit_status, fileVars>>

\* the state k0 successful Read Sequential calls after Open (k0 in 1 .. 255):
\* the handle is k0 records into b.dat, cr is k0, the last record is in the
\* DMA buffer
AfterReads(k0) ==
  /\ InitDevices!1 /\ InitDevices!2 /\ InitDevices!4 /\ InitDevices!5 /\ InitDevices!6
  /\ InitMachine
  /\ regs = [InitRegs EXCEPT !.DE = DEFAULT_FCB]
  /\ fps = <<[path |-> HostB, pos |-> k0 * DMA_SIZE, open |-> TRUE]>>
  /\ open_files = Put(<<>>, DEFAULT_FCB, [fp |-> 1, mode |-> MODE_BINARY, eol_convert |-> TRUE,
                                          eof_seen |-> FALSE, write_mode |-> FALSE])
  /\ last_op = [op |-> "read_seq", fcb |-> DEFAULT_FCB, had |-> TRUE, at_eof |-> FALSE]
  /\ mem = Store(StoreSeq(Store(Store(StoreSeq(<<>>, DEFAULT_FCB + 1, GuestFcb2Name),
                                     DEFAULT_FCB + 12, 0), DEFAULT_FCB + 15, 128),
                          DEFAULT_DMA, Fill(DMA_SIZE, 120)),
                 DEFAULT_FCB + 32, k0)
  /\ guest = [prog |-> "seq", k |-> k0]

\* b.dat, MaxRecords records long; the guest is about to open it at the
\* default FCB, built with cr = 0, or has opened it and read 126 or 254
\* records (states the first one leads to)
InitSeq ==
  /\ file_mappings = <<>> /\ file_map = <<>>
  /\ argv = <<>> /\ main_pc = "run"
  /\ host_fs = Put(<<>>, HostB, Fill(MaxRecords * DMA_SIZE, 120))
  /\ \/ /\ InitEmulator
        /\ guest = [prog |-> "seq", k |-> 0]
        /\ mem = StoreSeq(<<>>, DEFAULT_FCB + 1, GuestFcb2Name)
     \/ \E k0 \in {126, 254} : AfterReads(k0)

\* one more Read Sequential; k counts the calls that returned A = 0
guest_read_next ==
  /\ HasEntry(DEFAULT_FCB) /\ last_op.op # "set_random" /\ regs.A = 0
  /\ bdos_read_sequential(DEFAULT_FCB)
  /\ guest' = [guest EXCEPT !.k = IF regs'.A = 0 THEN @ + 1 ELSE @]
  /\ UNCHANGED <<conVars, searchVars, bootVars, machVars>>

NextSeq ==
  \/ fps = <<>> /\ bdos_open_file(DEFAULT_FCB) /\ UNCHANGED nonFileVars
  \/ guest_read_next
  \/ /\ HasEntry(DEFAULT_FCB) /\ last_op.op # "set_random" /\ regs.A = 0
     /\ bdos_set_random_record(DEFAULT_FCB) /\ UNCHANGED nonFileVars
SpecSeq == InitSeq /\ [][NextSeq]_vars

\* C30: Set Random Record called after k successful Read Sequential calls on
\* an FCB opened with ex = 0 and cr = 0 leaves k in r0..r2
C30_RecordIsCount ==
  last_op.op = "set_random" => random_record(mem, DEFAULT_FCB) = guest.k
====
